---- MODULE Spec2Model ----
(***************************************************************************)
(* Model of the crawler Lambda (src/src/handlers/crawler.py) and of the    *)
(* browser lifecycle it drives (src/src/lib/browser.py).                   *)
(*                                                                         *)
(* process_batch walks the delivery records one by one; each record is     *)
(* parsed (parse_task) and, when valid, executed (process_task).  The      *)
(* awaits of process_task are the steps of the model: launch, new_page,    *)
(* the initial goto, one step per action, the exit of the `async with`     *)
(* block (BrowserManager.close), the outer except handler, save_result in  *)
(* the finally block and the final raise / return.  Every collaborator     *)
(* call (browser, page, storage) may succeed or raise; the outcome is      *)
(* drawn nondeterministically.                                             *)
(*                                                                         *)
(* Smaller machines stand beside it: the credential cache of               *)
(* src/src/lib/secrets.py (CacheSpec: get_credentials statement by         *)
(* statement, with a clock), the validation of one action against the      *)
(* CrawlerAction Union of src/src/models/types.py followed by the dispatch *)
(* of execute_action (ParseSpec), execute_wait (WaitSpec), execute_login   *)
(* (LoginSpec), repeated BrowserManager.close calls (CloseSpec),           *)
(* parse_task on one body (BuildSpec), the construction of one action      *)
(* model (ModelSpec), execute_extract (ExtractSpec) and submit_tasks of    *)
(* src/src/handlers/task_submitter.py (SubmitSpec); PipeSpec sends one     *)
(* task through the submitter and then through parse_task.  FrameSpec and  *)
(* KeySpec run process_task on other action lists, and RedeliverSpec hands *)
(* the records process_batch reported failed to it again.  Each            *)
(* specification keeps the variables of the others at rest.                *)
(***************************************************************************)
EXTENDS Integers, Sequences, FiniteSets, TLC

\* ---------------------------------------------------------------- bounds

\* Longest batch of delivery records handed to process_batch.
MaxBatch == 3

\* Longest action list of a task that is run alone (TaskSpec).
MaxActions == 3

\* Longest action list of a task that is run in a batch (Spec).
MaxBatchActions == 2

\* ------------------------------------------------------------- constants

\* The eleven variants of CrawlerAction.
ActionTypes ==
    {"login", "click", "fill", "wait", "extract", "screenshot",
     "navigate", "select", "hover", "scroll", "evaluate"}

\* The action types the inputs of a task run alone are drawn from: the two
\* critical ones and two of the others (one that returns data, one that
\* does not).
InputTypes == {"login", "navigate", "extract", "click"}

\* The action types the inputs of the tasks of a batch are drawn from: a
\* critical one and another one.
BatchInputTypes == {"login", "extract"}

\* The kinds of message body a record can carry: not JSON at all, JSON that
\* CrawlerTask rejects, and a valid task.
BodyKinds == {"badjson", "invalid", "valid"}

\* No exception is propagating.
NoExc == <<>>

\* No task is being processed.
NoTask == [task_id |-> "", actions |-> <<>>]

\* ----------------------------------------------------- pure helper code

\* f"{action.type}[{i}]": the label of the ErrorInfo of action i (0-based).
ActionLabel(type, i) == <<type, i>>

\* The label of the ErrorInfo appended by the outer except handler.
TaskLabel == <<"task">>

\* ErrorInfo(action=..., message=str(e)).
ErrorInfo(label, message) == [action |-> label, message |-> message]

\* `action.type in ("login", "navigate")`: the failure is re-raised.
IsCritical(type) == type \in {"login", "navigate"}

\* task_logger.warning("Action failed", **error_info.model_dump()): the dump
\* of an ErrorInfo has the key "message", and ContextLogger.warning names its
\* first parameter `message`, which the call already binds positionally.
\* Python rejects the call: TypeError, "got multiple values for argument
\* 'message'", on every call.
ActionFailedLogRaises == TRUE

\* The calls of an action handler that can raise.  execute_login first
\* looks the credentials up (secrets_manager.get_credentials) and then
\* drives the page; execute_screenshot captures from the page and then
\* writes to storage (save_screenshot); every other handler only drives the
\* page.
FailSteps(type) ==
    CASE type = "login" -> {"get_credentials", "page"}
      [] type = "screenshot" -> {"page", "save_screenshot"}
      [] OTHER -> {"page"}

\* str(e) of the exception an action handler raised at the given step.
ActionException(type, index, step) == <<type, index, step>>

\* Mutant: the handler of a failed action lets nothing out.
HandlerException_swallows(type, index, e) == <<>>

\* The exception that leaves the handler of a failed action (NoExc: none):
\* the TypeError of the logging call, which comes before the test for a
\* critical action; were the call to return, the caught exception e for a
\* Login or Navigate (`raise`) and none for the rest.
HandlerException(type, index, e) ==
    IF ActionFailedLogRaises THEN <<"TypeError">>
    ELSE IF IsCritical(type) THEN e
    ELSE NoExc

\* Mutant: the loop skips every other action.
NextIndex_skips(index) == index + 2

\* enumerate(task.actions): the index of the action after action `index`.
NextIndex(index) == index + 1

\* Mutant: the comparison is inverted.
ComputeSuccess_inverted(errors) == Len(errors) # 0

\* `result.success = len(result.errors) == 0`
ComputeSuccess(errors) == Len(errors) = 0

\* any(e.action == "task" for e in result.errors)
HasTaskError(errors) == \E k \in 1..Len(errors) : errors[k].action = TaskLabel

\* Mutant: the final raise is missing.
ShouldRaise_never(res) == FALSE

\* `if not result.success and any(e.action == "task" ...): raise RuntimeError`
ShouldRaise(res) == (~res.success) /\ HasTaskError(res.errors)

\* An empty dict.
EmptyDict == [k \in {} |-> k]

\* `d[key] = value`
DictPut(d, key, value) ==
    [k \in DOMAIN d \cup {key} |-> IF k = key THEN value ELSE d[k]]

\* `del d[key]`
DictDel(d, key) == [k \in DOMAIN d \ {key} |-> d[k]]

\* Mutant: a key that is already there keeps its value (setdefault).
DictUpdate_keepsFirst(d, other) ==
    [k \in DOMAIN d \cup DOMAIN other |-> IF k \in DOMAIN d THEN d[k] ELSE other[k]]

\* `d.update(other)`
DictUpdate(d, other) ==
    [k \in DOMAIN d \cup DOMAIN other |-> IF k \in DOMAIN other THEN other[k] ELSE d[k]]

\* What the page call of the action at the index returned (inner_text,
\* get_attribute, page.evaluate ...): a value of its own.
PageValue(index) == <<"value", index>>

\* execute_evaluate: `if action.name:` the name, else "evaluate_result";
\* execute_extract: action.name.  (name "": None or empty.)
FragmentKey(action) ==
    IF action.type = "evaluate" /\ action.name = "" THEN "evaluate_result"
    ELSE action.name

\* action_result.get("data") of an action that returned: the one-key dict of
\* execute_extract / execute_evaluate; nothing (the empty dict stands for
\* the missing key) for every other type.
ActionData(action, index) ==
    IF action.type \in {"extract", "evaluate"}
    THEN DictPut(EmptyDict, FragmentKey(action), PageValue(index))
    ELSE EmptyDict

\* `if action_result.get("data"): result.data.update(action_result["data"])`
MergeData(data, fragment) ==
    IF fragment # EmptyDict THEN DictUpdate(data, fragment) ELSE data

\* execute_screenshot: `name = action.name or f"screenshot-{int(time.time() *
\* 1000)}"` (name "": None or empty; the generated name stands for any).
ScreenshotName(action) ==
    IF action.name # "" THEN action.name ELSE "screenshot-ms"

\* action_result.get("screenshot") of an action that returned, as a list of
\* at most one: the ScreenshotResult save_screenshot built for a Screenshot
\* action (its s3_key and s3_url follow from task_id and name; taken_by is
\* history: the index of the action), nothing for every other type.
ActionScreenshot(action, index) ==
    IF action.type = "screenshot"
    THEN <<[name |-> ScreenshotName(action), taken_by |-> index]>>
    ELSE <<>>

\* Mutant: a Screenshot whose storage write raised still hands its capture
\* to the result.
RaisedActionScreenshot_kept(action, index, step) ==
    IF action.type = "screenshot" /\ step = "save_screenshot"
    THEN <<[name |-> ScreenshotName(action), taken_by |-> index]>>
    ELSE <<>>

\* What an action that raised hands to the result: `action_result` is
\* assigned only when execute_action returns, so nothing.
RaisedActionScreenshot(action, index, step) == <<>>

\* Mutant: the reference is inserted at the front of the list.
MergeScreenshots_prepends(screenshots, shot) == shot \o screenshots

\* `if action_result.get("screenshot"): result.screenshots.append(...)`
MergeScreenshots(screenshots, shot) == screenshots \o shot

\* CrawlerResult(..., success=False, data={}, screenshots=[], errors=[]).
InitialResult ==
    [success |-> FALSE, errors |-> <<>>, data |-> EmptyDict, screenshots |-> <<>>]

\* Mutant: a failed save_result is recorded as a task failure.
ResultAfterSave_recordsFailure(res, ok) ==
    IF ok THEN res
    ELSE [res EXCEPT !.success = FALSE,
                     !.errors = Append(@, [action |-> <<"task">>, message |-> <<"save">>])]

\* The finally block: save_result is awaited inside try / except Exception,
\* so neither outcome touches the result.
ResultAfterSave(res, ok) == res

\* BrowserManager.__init__: no handle is held.
NoHandles == [playwright |-> FALSE, browser |-> FALSE, context |-> FALSE]

HoldsHandle(m) == m.playwright \/ m.browser \/ m.context

\* The steps BrowserManager.close can fail at: "none" (every call returns)
\* or the close / stop call of one handle that is held.
CloseFailPoints(m) ==
    {"none"} \cup (IF m.context THEN {"context"} ELSE {})
             \cup (IF m.browser THEN {"browser"} ELSE {})
             \cup (IF m.playwright THEN {"playwright"} ELSE {})

\* BrowserManager.close: context, browser and playwright are closed in this
\* order inside ONE try block; each handle is cleared after its call
\* returned, and the first call that raises ends the block (the exception is
\* logged and swallowed), leaving that handle and the later ones set.
CloseHandles(m, failAt) ==
    [context    |-> m.context /\ failAt = "context",
     browser    |-> m.browser /\ failAt \in {"context", "browser"},
     playwright |-> m.playwright /\ failAt \in {"context", "browser", "playwright"}]

\* The close / stop calls one BrowserManager.close issues, in order: one per
\* handle that is held, up to and including the call that raises.
CloseOps(m, failAt) ==
    (IF m.context THEN <<"context.close">> ELSE <<>>)
    \o (IF failAt = "context" THEN <<>>
        ELSE (IF m.browser THEN <<"browser.close">> ELSE <<>>)
             \o (IF failAt = "browser" \/ ~m.playwright THEN <<>>
                 ELSE <<"playwright.stop">>))

\* ------------------------------------------------------------------ state

VARIABLES
    records,              \* the batch: delivery records (messageId, body)
    idx,                  \* process_batch: records handled so far
    batch_item_failures,  \* process_batch: identifiers reported failed
    pc,                   \* where the coroutine stands
    task,                 \* process_task: the parsed CrawlerTask
    i,                    \* process_task: index of the next action
    result,               \* process_task: the CrawlerResult being built
    exc,                  \* process_task: message of a propagating exception
    bm,                   \* the task's BrowserManager handles
    leaked,               \* sessions of earlier tasks that were never closed
    executed,             \* history: indices of the actions started, in order
    failed,               \* history: indices of the actions that raised
    savedArgs,            \* history: the results handed to save_result
    saveFailed,           \* history: the task's save_result call raised
    log,                  \* history: how each handled record ended
    now,                  \* secrets: time.time(), in seconds
    secrets_cache,        \* secrets: the module-level _secrets_cache dict
    default_secret_arn,   \* secrets: SECRETS_ARN of the environment ("": unset)
    call,                 \* secrets: the get_credentials call of each caller
    payload,              \* validation: one action of a decoded message body
    parsed,               \* validation: what CrawlerTask(**data) made of it
    branch,               \* execute_action: the branch of the dispatch taken
    wait_action,          \* execute_wait: the WaitAction it is called with
    wait_pc,              \* execute_wait: where the call stands
    page_ops,             \* execute_wait: the page calls made, in order
    close_log,            \* close: the close / stop calls each close() issued
    sub_tasks,            \* submitter: the task array of the request body
    sub_response,         \* submitter: the response returned (<<>> before)
    sqs_calls,            \* submitter: the send calls issued to the queue
    task_body,            \* parse_task: the message body, decoded
    union_pick,           \* pydantic: the Union member each action dict resolves to
    ids_generated,        \* generate_task_id: calls so far
    parse_results,        \* parse_task: what each call returned or raised
    ctor,                 \* action model: the class called and the keywords given
    instance,             \* action model: the instance built or the error raised
    login_action,         \* execute_login: the LoginAction
    login_pc,             \* execute_login: the statement it stands at
    login_ops,            \* execute_login: the collaborator calls made, in order
    submission,           \* submitter: what validate_task made of the task
    redeliveries,         \* transport: how often it has redelivered the records reported failed
    extract_action,       \* execute_extract: the ExtractAction
    extract_page,         \* execute_extract: the elements the locator matches, in document order
    extract_pc,           \* execute_extract: where the call stands
    extract_i,            \* execute_extract: the loop variable i
    extract_values,       \* execute_extract: the list `values`
    extract_ret           \* execute_extract: what the call returned

\* The variables of the crawler handler.
crawlerVars ==
    <<records, idx, batch_item_failures, pc, task, i, result, exc, bm,
      leaked, executed, failed, savedArgs, saveFailed, log>>

\* The variables of the credential cache (src/src/lib/secrets.py).
cacheVars == <<now, secrets_cache, default_secret_arn, call>>

\* The variables of the validation and dispatch of one action.
parseVars == <<payload, parsed, branch>>

\* The variables of one execute_wait call.
waitVars == <<wait_action, wait_pc, page_ops>>

\* The variables of the calls of BrowserManager.close on one manager.
closeVars == <<close_log>>

\* The variables of one call of the task submission handler.
submitVars == <<sub_tasks, sub_response, sqs_calls>>

\* The variables of the parse_task calls on one message body.
buildVars == <<task_body, union_pick, ids_generated, parse_results>>

\* The variables of the construction of one action model.
modelVars == <<ctor, instance>>

\* The variables of one execute_login call.
loginVars == <<login_action, login_pc, login_ops>>

\* The variable of the path of one task from the submitter to the crawler.
pipeVars == <<submission>>

\* The variable of the at-least-once transport that feeds the crawler.
transportVars == <<redeliveries>>

\* The variables of one execute_extract call.
extractVars == <<extract_action, extract_page, extract_pc, extract_i, extract_values, extract_ret>>

\* What a step of the crawler handler leaves alone.
auxVars ==
    <<cacheVars, parseVars, waitVars, closeVars, submitVars, buildVars, modelVars, loginVars, pipeVars, transportVars,
      extractVars>>

\* What a step of get_credentials leaves alone.
notCacheVars ==
    <<crawlerVars, parseVars, waitVars, closeVars, submitVars, buildVars, modelVars, loginVars, pipeVars, transportVars,
      extractVars>>

\* What the validation and dispatch of an action leave alone.
notParseVars ==
    <<crawlerVars, cacheVars, waitVars, closeVars, submitVars, buildVars, modelVars, loginVars, pipeVars, transportVars,
      extractVars>>

\* What a step of execute_wait leaves alone.
notWaitVars ==
    <<crawlerVars, cacheVars, parseVars, closeVars, submitVars, buildVars, modelVars, loginVars, pipeVars, transportVars,
      extractVars>>

\* What a close() call on a manager leaves alone, the manager aside.
notCloseVars ==
    <<cacheVars, parseVars, waitVars, submitVars, buildVars, modelVars, loginVars, pipeVars, transportVars,
      extractVars>>

\* What a call of the task submission handler leaves alone.
notSubmitVars ==
    <<crawlerVars, cacheVars, parseVars, waitVars, closeVars, buildVars, modelVars, loginVars, pipeVars, transportVars,
      extractVars>>

\* What a parse_task call leaves alone.
notBuildVars ==
    <<crawlerVars, cacheVars, parseVars, waitVars, closeVars, submitVars, modelVars, loginVars, pipeVars, transportVars,
      extractVars>>

\* What the construction of an action model leaves alone.
notModelVars ==
    <<crawlerVars, cacheVars, parseVars, waitVars, closeVars, submitVars, buildVars, loginVars, pipeVars, transportVars,
      extractVars>>

\* What a step of execute_login leaves alone.
notLoginVars ==
    <<crawlerVars, cacheVars, parseVars, waitVars, closeVars, submitVars, buildVars, modelVars, pipeVars, transportVars,
      extractVars>>

\* What the validation of a submitted task leaves alone.
notPipeVars ==
    <<crawlerVars, cacheVars, parseVars, waitVars, closeVars, submitVars, buildVars, modelVars, loginVars, transportVars,
      extractVars>>

\* What execute_extract leaves alone.
notExtractVars ==
    <<crawlerVars, cacheVars, parseVars, waitVars, closeVars, submitVars, buildVars, modelVars, loginVars, pipeVars, transportVars>>

vars == <<crawlerVars, auxVars>>

\* The variables of one process_task call.
taskVars ==
    <<task, i, result, exc, bm, executed, failed, savedArgs, saveFailed>>

\* The lists of at most n of the given actions.
ActionListsOver(actions, n) ==
    UNION {[1..m -> actions] : m \in 0..n}

\* The action lists of at most n actions over the given types, each action
\* named "x".
ActionLists(types, n) ==
    ActionListsOver([type : types, name : {"x"}], n)

\* The batches of at most n records: messageIds are unique per batch.
Batches(n) ==
    UNION {{[k \in 1..m |-> [messageId |-> k, body |-> b[k]]] :
              b \in [1..m -> BodyKinds]} : m \in 0..n}

\* Sessions that are live: the ones leaked by earlier tasks plus the one of
\* the running task, if its manager holds a handle.
LiveSessions == leaked + (IF HoldsHandle(bm) THEN 1 ELSE 0)

\* ------------------------------------------------- secrets: data and rest

\* The callers of get_credentials (coroutines of the process).
Callers == {1, 2}

\* The secret ids of the secrets store.
SecretIds == {"a", "b"}

\* Nothing returned or raised yet.
NoRet == [kind |-> "none", error |-> "", credentials |-> <<>>]

\* No get_credentials call is in progress for the caller.  pc: where the
\* call stands; secret_id, credentials: its locals; ret: what it returned or
\* raised; fetched, expired: history (the collaborator was called; the call
\* found an expired entry).
NoCall ==
    [pc |-> "idle", secret_id |-> "", credentials |-> <<>>, ret |-> NoRet,
     fetched |-> FALSE, expired |-> FALSE]

\* The credential cache at rest: a fresh process, no call in progress.
CacheIdle ==
    /\ now = 0
    /\ secrets_cache = EmptyDict
    /\ default_secret_arn = ""
    /\ call = [c \in Callers |-> NoCall]

\* ------------------------------------- validation, execute_wait: at rest

\* An Optional value: None is <<>>, a value v is <<v>>.
None == <<>>

\* No action is being validated.
NoPayload == [has_type |-> FALSE, type |-> "", fields |-> {}]

\* Validation has not run.
NotParsed == [status |-> "pending", type |-> ""]

\* Nothing is being validated or dispatched.
ParseIdle ==
    /\ payload = NoPayload
    /\ parsed = NotParsed
    /\ branch = ""

\* WaitAction(): every field at its default.
DefaultWait ==
    [delay |-> None, xpath |-> None, state |-> <<"visible">>, timeout |-> None]

\* No execute_wait call is in progress.
WaitIdle ==
    /\ wait_action = DefaultWait
    /\ wait_pc = "idle"
    /\ page_ops = <<>>

\* BrowserManager.close has not been called.
CloseIdle == close_log = <<>>

\* No submission request is in progress.
SubmitIdle ==
    /\ sub_tasks = <<>>
    /\ sub_response = <<>>
    /\ sqs_calls = <<>>

\* parse_task has not been handed a body.
BuildIdle ==
    /\ task_body = <<>>
    /\ union_pick = <<>>
    /\ ids_generated = 0
    /\ parse_results = <<>>

\* No action model is being constructed.
ModelIdle ==
    /\ ctor = <<>>
    /\ instance = <<>>

\* No execute_login call is in progress.
LoginIdle ==
    /\ login_action = <<>>
    /\ login_pc = "idle"
    /\ login_ops = <<>>

\* No task is on its way from the submitter to the crawler.
PipeIdle == submission = ""

\* The transport has redelivered nothing.
TransportIdle == redeliveries = 0

\* No Extract action is being executed.
ExtractIdle ==
    /\ extract_action = <<>>
    /\ extract_page = <<>>
    /\ extract_pc = "idle"
    /\ extract_i = 0
    /\ extract_values = <<>>
    /\ extract_ret = <<>>

\* The state process_batch starts in, given the batches it may be handed.
CrawlerInitWith(batches) ==
    /\ records \in batches
    /\ idx = 0
    /\ batch_item_failures = <<>>
    /\ pc = "batch"
    /\ task = NoTask
    /\ i = 0
    /\ result = InitialResult
    /\ exc = NoExc
    /\ bm = NoHandles
    /\ leaked = 0
    /\ executed = <<>>
    /\ failed = <<>>
    /\ savedArgs = <<>>
    /\ saveFailed = FALSE
    /\ log = <<>>

\* The crawler handler in a process whose credential cache is at rest.
InitWith(batches) ==
    /\ CacheIdle
    /\ ParseIdle
    /\ WaitIdle
    /\ CloseIdle
    /\ SubmitIdle
    /\ BuildIdle
    /\ ModelIdle
    /\ LoginIdle
    /\ PipeIdle
    /\ TransportIdle
    /\ ExtractIdle
    /\ CrawlerInitWith(batches)

\* The crawler handler at rest: it was handed no record.
CrawlerIdle == CrawlerInitWith({<<>>})

\* ---------------------------------------------------------- process_batch

\* Mutant: the identifier is read under a wrong key, so the default is used.
AppendFailure_unknown(failures, message_id) == Append(failures, 0)

\* `except Exception` of process_batch: the record's identifier is appended.
AppendFailure(failures, message_id) == Append(failures, message_id)

\* Mutant: the try / except wraps the whole loop, so a failure ends it.
PcAfterItemFailure_abort == "done"

\* Where process_batch goes after an item failed: the except handler is
\* inside the for loop, so the loop takes the next record.
PcAfterItemFailure == "batch"

\* The record the for loop is at.
Current == records[idx + 1]

\* Mutant: the task is built without validation; only json.loads can raise.
ParseRaises_jsonOnly(body) == body = "badjson"

\* parse_task raises: json.loads rejects the body (re-raised as ValueError)
\* or CrawlerTask(**data) rejects the decoded data.
ParseRaises(body) == body \in {"badjson", "invalid"}

\* parse_task raises: the handler of process_batch records the identifier;
\* process_task is never called.
ParseFail ==
    /\ pc = "batch"
    /\ idx < Len(records)
    /\ ParseRaises(Current.body)
    /\ batch_item_failures' = AppendFailure(batch_item_failures, Current.messageId)
    /\ log' = Append(log, [messageId |-> Current.messageId, parsed |-> FALSE,
                           fatal |-> FALSE, partial |-> FALSE, saves |-> 0,
                           raised |-> TRUE, message |-> <<"parse_task">>])
    /\ idx' = idx + 1
    /\ pc' = PcAfterItemFailure
    /\ UNCHANGED <<auxVars, records, leaked, taskVars>>

\* parse_task returns a CrawlerTask; process_task starts: the services and
\* the empty result are created.
ParseOk(lists) ==
    /\ pc = "batch"
    /\ idx < Len(records)
    /\ ~ParseRaises(Current.body)
    /\ \E acts \in lists :
         task' = [task_id |-> "t", actions |-> acts]
    /\ i' = 0
    /\ result' = InitialResult
    /\ exc' = NoExc
    /\ bm' = NoHandles
    /\ executed' = <<>>
    /\ failed' = <<>>
    /\ savedArgs' = <<>>
    /\ saveFailed' = FALSE
    /\ pc' = "launch"
    /\ UNCHANGED <<auxVars, records, idx, batch_item_failures, leaked, log>>

\* The for loop is exhausted: SQSBatchResponse(batchItemFailures=...).
BatchDone ==
    /\ pc = "batch"
    /\ idx = Len(records)
    /\ pc' = "done"
    /\ UNCHANGED <<auxVars, records, idx, batch_item_failures, leaked, log, taskVars>>

\* ----------------------------------------------------------- process_task

\* Mutant: __aexit__ returns a true value, which suppresses the exception.
Throw_suppressed(message) ==
    /\ exc' = NoExc
    /\ pc' = "aexit"

\* An exception leaves the `async with` body: __aexit__ runs next.
Throw(message) ==
    /\ exc' = message
    /\ pc' = "aexit"

\* browser_manager.launch: async_playwright().start() and chromium.launch
\* each may raise; the handle of a call that returned is kept.
Launch ==
    /\ pc = "launch"
    /\ \/ /\ bm' = [bm EXCEPT !.playwright = TRUE, !.browser = TRUE]
          /\ pc' = "new_page"
          /\ UNCHANGED exc
       \/ /\ bm' = bm
          /\ Throw(<<"launch">>)
       \/ /\ bm' = [bm EXCEPT !.playwright = TRUE]
          /\ Throw(<<"launch">>)
    /\ UNCHANGED <<auxVars, records, idx, batch_item_failures, leaked, log,
                   task, i, result, executed, failed, savedArgs, saveFailed>>

\* browser_manager.new_page: create_context (new_context, add_init_script)
\* and context.new_page each may raise.
NewPage ==
    /\ pc = "new_page"
    /\ \/ /\ bm' = [bm EXCEPT !.context = TRUE]
          /\ pc' = "goto"
          /\ UNCHANGED exc
       \/ /\ bm' = bm
          /\ Throw(<<"new_page">>)
       \/ /\ bm' = [bm EXCEPT !.context = TRUE]
          /\ Throw(<<"new_page">>)
    /\ UNCHANGED <<auxVars, records, idx, batch_item_failures, leaked, log,
                   task, i, result, executed, failed, savedArgs, saveFailed>>

\* page.goto(task.url): the initial navigation.
Goto ==
    /\ pc = "goto"
    /\ \/ /\ pc' = "actions"
          /\ UNCHANGED exc
       \/ Throw(<<"goto">>)
    /\ UNCHANGED <<auxVars, records, idx, batch_item_failures, leaked, log,
                   task, i, result, bm, executed, failed, savedArgs, saveFailed>>

\* The action the loop is at (i is 0-based as in the code).
Action == task.actions[i + 1]

\* One iteration of `for i, action in enumerate(task.actions)`:
\* execute_action returns and its data is merged into the result, or raises and the inner handler appends the
\* ErrorInfo of the action, logs it and re-raises for a critical action.
ExecuteAction ==
    /\ pc = "actions"
    /\ i < Len(task.actions)
    /\ executed' = Append(executed, i)
    /\ \/ /\ result' = [result EXCEPT
                 !.data = MergeData(@, ActionData(Action, i)),
                 !.screenshots = MergeScreenshots(@, ActionScreenshot(Action, i))]
          /\ i' = NextIndex(i)
          /\ UNCHANGED <<pc, exc, failed>>
       \/ \E step \in FailSteps(Action.type) :
            LET e == ActionException(Action.type, i, step) IN
            /\ failed' = Append(failed, i)
            /\ result' = [result EXCEPT
                   !.errors = Append(@, ErrorInfo(ActionLabel(Action.type, i), e)),
                   !.screenshots =
                       MergeScreenshots(@, RaisedActionScreenshot(Action, i, step))]
            /\ IF HandlerException(Action.type, i, e) # NoExc
               THEN /\ Throw(HandlerException(Action.type, i, e))
                    /\ i' = i
               ELSE /\ i' = NextIndex(i)
                    /\ UNCHANGED <<pc, exc>>
    /\ UNCHANGED <<auxVars, records, idx, batch_item_failures, leaked, log,
                   task, bm, savedArgs, saveFailed>>

\* The loop is exhausted: result.success = len(result.errors) == 0, and the
\* `async with` body ends normally.
LoopEnd ==
    /\ pc = "actions"
    /\ i = Len(task.actions)
    /\ result' = [result EXCEPT !.success = ComputeSuccess(result.errors)]
    /\ pc' = "aexit"
    /\ UNCHANGED <<auxVars, records, idx, batch_item_failures, leaked, log,
                   task, i, exc, bm, executed, failed, savedArgs, saveFailed>>

\* BrowserManager.__aexit__: close(); a propagating exception goes on to the
\* outer handler, otherwise the finally block is next.
Close ==
    /\ pc = "aexit"
    /\ \E failAt \in CloseFailPoints(bm) : bm' = CloseHandles(bm, failAt)
    /\ pc' = IF exc = NoExc THEN "finally" ELSE "except"
    /\ UNCHANGED <<auxVars, records, idx, batch_item_failures, leaked, log,
                   task, i, result, exc, executed, failed, savedArgs, saveFailed>>

\* Mutant: save_result sits at the end of the try body, not in a finally.
AfterExcept_skipSave == "after"

\* Where control goes when the outer handler is done: the finally block.
AfterExcept == "finally"

\* The outer `except Exception`: the "task" ErrorInfo is appended.
TaskFailed ==
    /\ pc = "except"
    /\ result' = [result EXCEPT !.errors = Append(@, ErrorInfo(TaskLabel, exc))]
    /\ exc' = NoExc
    /\ pc' = AfterExcept
    /\ UNCHANGED <<auxVars, records, idx, batch_item_failures, leaked, log,
                   task, i, bm, executed, failed, savedArgs, saveFailed>>

\* The finally block: save_result is awaited; a failure is logged only.
SaveResult ==
    /\ pc = "finally"
    /\ savedArgs' = Append(savedArgs, result)
    /\ \E ok \in BOOLEAN :
         /\ result' = ResultAfterSave(result, ok)
         /\ saveFailed' = ~ok
    /\ pc' = "after"
    /\ UNCHANGED <<auxVars, records, idx, batch_item_failures, leaked, log,
                   task, i, exc, bm, executed, failed>>

\* The end of one process_task call: the task's variables are dropped; a
\* manager that still holds a handle leaves its session running.
EndTask ==
    /\ idx' = idx + 1
    /\ leaked' = leaked + (IF HoldsHandle(bm) THEN 1 ELSE 0)
    /\ task' = NoTask
    /\ i' = 0
    /\ result' = InitialResult
    /\ exc' = NoExc
    /\ bm' = NoHandles
    /\ executed' = <<>>
    /\ failed' = <<>>
    /\ savedArgs' = <<>>
    /\ saveFailed' = FALSE

\* `raise RuntimeError(f"Task failed: {result.errors[0].message}")`: the
\* message the raised failure carries, the prefix aside.
RaisedMessage(r) == r.errors[1].message

\* History: how the call ended. fatal: a "task" ErrorInfo was recorded;
\* partial: some action raised, and every action that raised is of a type
\* other than Login and Navigate; message: what the raised failure says.
LogEntry(raised) ==
    [messageId |-> Current.messageId, parsed |-> TRUE,
     fatal |-> \E k \in 1..Len(result.errors) : result.errors[k].action = <<"task">>,
     partial |-> /\ failed # <<>>
                 /\ \A n \in 1..Len(failed) :
                        task.actions[failed[n] + 1].type \notin {"login", "navigate"},
     saves |-> Len(savedArgs),
     raised |-> raised,
     message |-> IF raised THEN RaisedMessage(result) ELSE NoExc]

\* `raise RuntimeError(...)`: process_batch catches it and records the
\* identifier.
RaiseTaskFailed ==
    /\ pc = "after"
    /\ ShouldRaise(result)
    /\ batch_item_failures' = AppendFailure(batch_item_failures, Current.messageId)
    /\ log' = Append(log, LogEntry(TRUE))
    /\ pc' = PcAfterItemFailure
    /\ EndTask
    /\ UNCHANGED <<auxVars, records>>

\* process_task returns None: the record is not reported.
ReturnOk ==
    /\ pc = "after"
    /\ ~ShouldRaise(result)
    /\ log' = Append(log, LogEntry(FALSE))
    /\ pc' = "batch"
    /\ EndTask
    /\ UNCHANGED <<auxVars, records, batch_item_failures>>

\* The steps of one process_task call.
TaskStep ==
    \/ Launch
    \/ NewPage
    \/ Goto
    \/ ExecuteAction
    \/ LoopEnd
    \/ Close
    \/ TaskFailed
    \/ SaveResult
    \/ RaiseTaskFailed
    \/ ReturnOk

\* A batch of up to MaxBatch records, each task of up to MaxBatchActions
\* actions.
Init == InitWith(Batches(MaxBatch))

Next ==
    \/ ParseFail
    \/ ParseOk(ActionLists(BatchInputTypes, MaxBatchActions))
    \/ BatchDone
    \/ TaskStep

Spec == Init /\ [][Next]_vars

\* A batch of at most one record, its task of up to MaxActions actions.
TaskInit == InitWith(Batches(1))

TaskNext ==
    \/ ParseFail
    \/ ParseOk(ActionLists(InputTypes, MaxActions))
    \/ BatchDone
    \/ TaskStep

TaskSpec == TaskInit /\ [][TaskNext]_vars

\* Longest action list of a task whose data is followed (DataSpec).
MaxDataActions == 3

\* The actions of such a task: two types that return data and one that
\* does not, named "a" or not named.
DataActions == [type : {"extract", "evaluate", "click"}, name : {"", "a"}]

\* A batch of at most one record, its task of up to MaxDataActions actions
\* that return data or not.
DataNext ==
    \/ ParseFail
    \/ ParseOk(ActionListsOver(DataActions, MaxDataActions))
    \/ BatchDone
    \/ TaskStep

DataSpec == TaskInit /\ [][DataNext]_vars

\* Longest action list of a task whose screenshots are followed (ShotSpec).
MaxShotActions == 3

\* The actions of such a task: Wait and Screenshot, named "s1" or not named.
ShotActions == [type : {"wait", "screenshot"}, name : {"", "s1"}]

\* A batch of at most one record, its task of up to MaxShotActions Wait and
\* Screenshot actions.
ShotNext ==
    \/ ParseFail
    \/ ParseOk(ActionListsOver(ShotActions, MaxShotActions))
    \/ BatchDone
    \/ TaskStep

ShotSpec == TaskInit /\ [][ShotNext]_vars

\* Longest action list of a task whose failing actions are followed
\* (FrameSpec).
MaxFrameActions == 3

\* The actions of such a task: one that returns data, one that returns a
\* screenshot reference and one that returns neither.
FrameActions == [type : {"extract", "screenshot", "click"}, name : {"a"}]

\* A batch of at most one record, its task of up to MaxFrameActions of
\* these actions.
FrameNext ==
    \/ ParseFail
    \/ ParseOk(ActionListsOver(FrameActions, MaxFrameActions))
    \/ BatchDone
    \/ TaskStep

FrameSpec == TaskInit /\ [][FrameNext]_vars

\* ------------------------------------------------ secrets: get_credentials

\* CACHE_TTL_SECONDS = 300
CACHE_TTL_SECONDS == 300

\* The clock is read up to this time.
MaxClock == 600

\* How far the clock moves in one step: half the lifetime of an entry or a
\* second less, so that two steps end a second before the expiry or on it.
ClockSteps == {CACHE_TTL_SECONDS \div 2 - 1, CACHE_TTL_SECONDS \div 2}

\* The secret_key arguments of get_credentials ("": None or empty).
KeyInputs == {""} \cup SecretIds

\* WebsiteCredentials(**secret_data) of the secret stored under the id.
CredentialsOf(secret_id) == <<"credentials", secret_id>>

\* The ways the fetch of get_credentials can end: the credentials are
\* built, get_secret_value raises ClientError, the response has no
\* SecretString (ValueError), json.loads or WebsiteCredentials rejects it.
FetchOutcomes == {"ok", "ClientError", "ValueError", "JSONDecodeError", "ValidationError"}

Returned(credentials) ==
    [kind |-> "return", error |-> "", credentials |-> credentials]

Raised(error) == [kind |-> "raise", error |-> error, credentials |-> <<>>]

\* `secret_id in _secrets_cache`
InCache(secret_id) == secret_id \in DOMAIN secrets_cache

\* Mutant: an entry is still served at its expiry time.
IsFresh_inclusive(t, expires_at) == t <= expires_at

\* `time.time() < expires_at`
IsFresh(t, expires_at) == t < expires_at

\* `expires_at = time.time() + CACHE_TTL_SECONDS`
ExpiresAt(t) == t + CACHE_TTL_SECONDS

\* Mutant: the calls run on threads, preempted between any two statements.
MayRun_preemptive(c) == TRUE

\* get_credentials, _get_cached and _set_cache are plain `def`s without an
\* await, called from coroutines of one event loop: a call that has started
\* runs to its return or raise before another caller runs.
MayRun(c) ==
    \A d \in Callers \ {c} : call[d].pc \in {"idle", "returned", "raised"}

\* The call of caller c takes a step to the record r.
SetCall(c, r) ==
    /\ MayRun(c)
    /\ call' = [call EXCEPT ![c] = r]

\* Mutant: the `if not secret_id` check is missing.
StartPc_unchecked(secret_id) == "check"

\* `if not secret_id: raise ValueError(...)`, before the cache is looked at.
StartPc(secret_id) == IF secret_id = "" THEN "raised" ELSE "check"

\* get_credentials(secret_key): the id is resolved; without one, ValueError.
StartCall(c) ==
    /\ call[c].pc = "idle"
    /\ \E secret_key \in KeyInputs :
         LET secret_id == IF secret_key # "" THEN secret_key
                          ELSE default_secret_arn IN
         SetCall(c, [NoCall EXCEPT !.pc = StartPc(secret_id),
                                   !.secret_id = secret_id,
                                   !.ret = IF StartPc(secret_id) = "raised"
                                           THEN Raised("ValueError")
                                           ELSE NoRet])
    /\ UNCHANGED <<now, secrets_cache, default_secret_arn, notCacheVars>>

\* _get_cached: `if secret_id in _secrets_cache`.
CheckCache(c) ==
    /\ call[c].pc = "check"
    /\ SetCall(c, [call[c] EXCEPT !.pc =
                      IF InCache(call[c].secret_id) THEN "read" ELSE "fetch"])
    /\ UNCHANGED <<now, secrets_cache, default_secret_arn, notCacheVars>>

\* _get_cached: the entry is read (KeyError if it is gone) and returned when
\* it has not expired.
ReadCache(c) ==
    /\ call[c].pc = "read"
    /\ IF ~InCache(call[c].secret_id)
       THEN SetCall(c, [call[c] EXCEPT !.pc = "raised", !.ret = Raised("KeyError")])
       ELSE LET entry == secrets_cache[call[c].secret_id] IN
            IF IsFresh(now, entry.expires_at)
            THEN SetCall(c, [call[c] EXCEPT !.pc = "returned",
                                            !.ret = Returned(entry.credentials)])
            ELSE SetCall(c, [call[c] EXCEPT !.pc = "del", !.expired = TRUE])
    /\ UNCHANGED <<now, secrets_cache, default_secret_arn, notCacheVars>>

\* _get_cached: `del _secrets_cache[secret_id]` (KeyError if it is gone),
\* `return None`.
DeleteExpired(c) ==
    /\ call[c].pc = "del"
    /\ IF ~InCache(call[c].secret_id)
       THEN /\ SetCall(c, [call[c] EXCEPT !.pc = "raised", !.ret = Raised("KeyError")])
            /\ UNCHANGED secrets_cache
       ELSE /\ SetCall(c, [call[c] EXCEPT !.pc = "fetch"])
            /\ secrets_cache' = DictDel(secrets_cache, call[c].secret_id)
    /\ UNCHANGED <<now, default_secret_arn, notCacheVars>>

\* Mutant: _set_cache is reached whatever the fetch did.
AfterFetchPc_alwaysStores(outcome) == "store"

\* Where the try block of get_credentials goes after the fetch: on to
\* _set_cache when the credentials were built; a ClientError is re-raised,
\* the other exceptions are not caught at all.
AfterFetchPc(outcome) == IF outcome = "ok" THEN "store" ELSE "raised"

\* get_secret_value, json.loads, WebsiteCredentials(**secret_data).
Fetch(c) ==
    /\ call[c].pc = "fetch"
    /\ \E outcome \in FetchOutcomes :
         IF outcome = "ok"
         THEN SetCall(c, [call[c] EXCEPT !.pc = AfterFetchPc(outcome),
                             !.fetched = TRUE,
                             !.credentials = CredentialsOf(call[c].secret_id)])
         ELSE SetCall(c, [call[c] EXCEPT !.pc = AfterFetchPc(outcome),
                             !.fetched = TRUE,
                             !.ret = Raised(outcome)])
    /\ UNCHANGED <<now, secrets_cache, default_secret_arn, notCacheVars>>

\* _set_cache and `return credentials`.  stored_at is history: the time the
\* entry was stored at.
SetCache(c) ==
    /\ call[c].pc = "store"
    /\ SetCall(c, [call[c] EXCEPT !.pc = "returned",
                                  !.ret = Returned(call[c].credentials)])
    /\ secrets_cache' = DictPut(secrets_cache, call[c].secret_id,
                                [credentials |-> call[c].credentials,
                                 expires_at |-> ExpiresAt(now),
                                 stored_at |-> now])
    /\ UNCHANGED <<now, default_secret_arn, notCacheVars>>

\* The caller has taken the result of its call.
EndCall(c) ==
    /\ call[c].pc \in {"returned", "raised"}
    /\ call' = [call EXCEPT ![c] = NoCall]
    /\ UNCHANGED <<now, secrets_cache, default_secret_arn, notCacheVars>>

\* Time passes.
Tick ==
    /\ \E d \in ClockSteps :
         /\ now + d <= MaxClock
         /\ now' = now + d
    /\ UNCHANGED <<secrets_cache, default_secret_arn, call, notCacheVars>>

\* A process with or without SECRETS_ARN, its cache empty, the crawler
\* handler at rest.
CacheInit ==
    /\ CrawlerIdle
    /\ ParseIdle
    /\ WaitIdle
    /\ CloseIdle
    /\ SubmitIdle
    /\ BuildIdle
    /\ ModelIdle
    /\ LoginIdle
    /\ PipeIdle
    /\ TransportIdle
    /\ ExtractIdle
    /\ now = 0
    /\ secrets_cache = EmptyDict
    /\ default_secret_arn \in {""} \cup SecretIds
    /\ call = [c \in Callers |-> NoCall]

CacheNext ==
    \/ \E c \in Callers :
         \/ StartCall(c)
         \/ CheckCache(c)
         \/ ReadCache(c)
         \/ DeleteExpired(c)
         \/ Fetch(c)
         \/ SetCache(c)
         \/ EndCall(c)
    \/ Tick

CacheSpec == CacheInit /\ [][CacheNext]_vars

\* ------------------------------------- validation and dispatch of an action

\* The required (no default) fields of the action models.
FieldNames ==
    {"username_xpath", "password_xpath", "submit_xpath", "xpath", "value",
     "name", "url", "script"}

\* The fields an action model requires; `type` itself has a default in
\* every model (type: Literal["login"] = "login", ...).
RequiredFields(variant) ==
    CASE variant = "login" -> {"username_xpath", "password_xpath", "submit_xpath"}
      [] variant = "click" -> {"xpath"}
      [] variant = "fill" -> {"xpath", "value"}
      [] variant = "wait" -> {}
      [] variant = "extract" -> {"xpath", "name"}
      [] variant = "screenshot" -> {}
      [] variant = "navigate" -> {"url"}
      [] variant = "select" -> {"xpath", "value"}
      [] variant = "hover" -> {"xpath"}
      [] variant = "scroll" -> {}
      [] variant = "evaluate" -> {"script"}

\* The values of the "type" key the payloads carry: the eleven tags, a tag
\* no model has, and the empty string.
TagInputs == ActionTypes \cup {"bogus", ""}

\* The action dicts of a message body: with a "type" key or without one,
\* and any set of the other keys (well-typed; unknown keys are ignored).
Payloads ==
    {[has_type |-> TRUE, type |-> t, fields |-> f] :
        t \in TagInputs, f \in SUBSET FieldNames}
    \cup {[has_type |-> FALSE, type |-> "", fields |-> f] : f \in SUBSET FieldNames}

\* The members of the CrawlerAction Union the dict validates against: the
\* Literal of `type` must match when the key is there (its default is used
\* when it is not), and the required fields must be there.
Candidates(p) ==
    {v \in ActionTypes :
        /\ p.has_type => p.type = v
        /\ RequiredFields(v) \subseteq p.fields}

\* CrawlerTask(**data) validates the action: ValidationError when no member
\* of the Union accepts it, otherwise an instance of a member that does
\* (which one, when several do, depends on the pydantic version).
ValidateAction ==
    /\ parsed.status = "pending"
    /\ payload # NoPayload
    /\ IF Candidates(payload) = {}
       THEN parsed' = [status |-> "rejected", type |-> ""]
       ELSE \E v \in Candidates(payload) :
                parsed' = [status |-> "accepted", type |-> v]
    /\ UNCHANGED <<payload, branch, notParseVars>>

\* The if / elif chain of execute_action over action.type; the else branch
\* raises ValueError("Unknown action type: ...").
Branch(type) == IF type \in ActionTypes THEN type ELSE "unknown"

\* execute_action is called with the validated action.
Dispatch ==
    /\ parsed.status = "accepted"
    /\ branch = ""
    /\ branch' = Branch(parsed.type)
    /\ UNCHANGED <<payload, parsed, notParseVars>>

\* One action of a message body, not yet validated.
ParseInit ==
    /\ CrawlerIdle
    /\ CacheIdle
    /\ WaitIdle
    /\ CloseIdle
    /\ SubmitIdle
    /\ BuildIdle
    /\ ModelIdle
    /\ LoginIdle
    /\ PipeIdle
    /\ TransportIdle
    /\ ExtractIdle
    /\ payload \in Payloads \ {NoPayload}
    /\ parsed = NotParsed
    /\ branch = ""

ParseNext ==
    \/ ValidateAction
    \/ Dispatch

ParseSpec == ParseInit /\ [][ParseNext]_vars

\* ------------------------------------------------------------ execute_wait

\* WaitState
WaitStates == {"attached", "detached", "visible", "hidden"}

\* The WaitAction instances execute_wait is called with: every field is
\* Optional; delay and timeout in ms.
WaitInputs ==
    [delay : {None, <<0>>, <<500>>},
     xpath : {None, <<"">>, <<"//div">>},
     state : {None} \cup {<<st>> : st \in WaitStates},
     timeout : {None, <<5000>>}]

\* Truth value of an Optional[int]: None and 0 are false.
TruthyInt(opt) == opt # None /\ opt[1] # 0

\* Truth value of an Optional[str]: None and "" are false.
TruthyStr(opt) == opt # None /\ opt[1] # ""

\* xpath_selector: f"xpath={xpath}"
XPathSelector(xpath) == <<"xpath=", xpath>>

\* `if action.delay: await page.wait_for_timeout(action.delay)`
DelayOps(action) ==
    IF TruthyInt(action.delay)
    THEN <<[op |-> "wait_for_timeout", arg |-> action.delay[1]]>>
    ELSE <<>>

\* Mutant: the `return` after the delay is missing.
ReturnsAfterDelay_fallsThrough(action) == FALSE

\* The `return` that ends the `if action.delay:` block.
ReturnsAfterDelay(action) == TruthyInt(action.delay)

\* `if action.xpath: await page.wait_for_selector(selector, state=..., timeout=...)`
SelectorOps(action) ==
    IF TruthyStr(action.xpath)
    THEN <<[op |-> "wait_for_selector",
            arg |-> XPathSelector(action.xpath[1]),
            state |-> IF action.state # None THEN action.state[1] ELSE "visible",
            timeout |-> action.timeout]>>
    ELSE <<>>

\* The page calls of execute_wait, in order.
WaitOps(action) ==
    DelayOps(action) \o (IF ReturnsAfterDelay(action) THEN <<>> ELSE SelectorOps(action))

\* execute_wait(page, action, logger): the page calls are made; the last one
\* may raise (a selector wait times out, the page is closed).
ExecuteWait ==
    /\ wait_pc = "call"
    /\ page_ops' = WaitOps(wait_action)
    /\ \/ wait_pc' = "returned"
       \/ /\ WaitOps(wait_action) # <<>>
          /\ wait_pc' = "raised"
    /\ UNCHANGED <<wait_action, notWaitVars>>

\* execute_wait is about to be called with some WaitAction.
WaitInit ==
    /\ CrawlerIdle
    /\ CacheIdle
    /\ ParseIdle
    /\ CloseIdle
    /\ SubmitIdle
    /\ BuildIdle
    /\ ModelIdle
    /\ LoginIdle
    /\ PipeIdle
    /\ TransportIdle
    /\ ExtractIdle
    /\ wait_action \in WaitInputs
    /\ wait_pc = "call"
    /\ page_ops = <<>>

WaitNext == ExecuteWait

WaitSpec == WaitInit /\ [][WaitNext]_vars

\* ------------------------------------------------- BrowserManager.close

\* How many times close() is called on one manager.
MaxCloses == 4

\* launch and new_page set the handles in the order playwright, browser,
\* context; a call that raises leaves the handles set so far.
Acquire ==
    /\ close_log = <<>>
    /\ \/ /\ ~bm.playwright
          /\ bm' = [bm EXCEPT !.playwright = TRUE]
       \/ /\ bm.playwright /\ ~bm.browser
          /\ bm' = [bm EXCEPT !.browser = TRUE]
       \/ /\ bm.browser /\ ~bm.context
          /\ bm' = [bm EXCEPT !.context = TRUE]
    /\ UNCHANGED <<close_log, notCloseVars, records, idx, batch_item_failures, pc,
                   task, i, result, exc, leaked, executed, failed, savedArgs,
                   saveFailed, log>>

\* await manager.close()
CloseCall ==
    /\ Len(close_log) < MaxCloses
    /\ \E failAt \in CloseFailPoints(bm) :
         /\ bm' = CloseHandles(bm, failAt)
         /\ close_log' = Append(close_log, CloseOps(bm, failAt))
    /\ UNCHANGED <<notCloseVars, records, idx, batch_item_failures, pc,
                   task, i, result, exc, leaked, executed, failed, savedArgs,
                   saveFailed, log>>

\* A new manager; nothing else runs.
CloseInit ==
    /\ CrawlerIdle
    /\ CacheIdle
    /\ ParseIdle
    /\ WaitIdle
    /\ SubmitIdle
    /\ BuildIdle
    /\ ModelIdle
    /\ LoginIdle
    /\ PipeIdle
    /\ TransportIdle
    /\ ExtractIdle
    /\ close_log = <<>>

CloseNext ==
    \/ Acquire
    \/ CloseCall

CloseSpec == CloseInit /\ [][CloseNext]_vars

\* ------------------------------------------ task submission (submit_tasks)

\* The most tasks submit_tasks takes in one request.
MaxTasksPerRequest == 10

\* The longest task array of a request, and the longest one whose tasks
\* differ from one another.
MaxTasks == 11
MaxMixedTasks == 3

\* A task of the request body: whether it is a JSON object, its "url"
\* (<<>> when absent, empty or not a string, else what urlparse makes of it),
\* its "actions" (<<>> when not a list, else <<the list>>) and its "task_id"
\* (<<>> when absent, else <<the id>>).
SubmitAction(is_dict, type) == [is_dict |-> is_dict, type |-> type]

SubmitTask(is_dict, url, actions, task_id) ==
    [is_dict |-> is_dict, url |-> url, actions |-> actions, task_id |-> task_id]

ParsedUrl(scheme, netloc) == <<[scheme |-> scheme, netloc |-> netloc]>>

\* The tasks a request is made of: well-formed ones with and without an id,
\* and one for each way validate_task refuses a task.
GoodTask(task_id) ==
    SubmitTask(TRUE, ParsedUrl("https", "example.com"),
               <<<<SubmitAction(TRUE, "click")>>>>, task_id)

SubmitTaskInputs ==
    {GoodTask(id) : id \in {<<>>, <<"">>, <<"a">>, <<"b">>}}
    \cup {SubmitTask(FALSE, <<>>, <<>>, <<>>),
          SubmitTask(TRUE, <<>>, <<<<>>>>, <<>>),
          SubmitTask(TRUE, ParsedUrl("", ""), <<<<>>>>, <<"a">>),
          SubmitTask(TRUE, ParsedUrl("https", "example.com"), <<>>, <<>>),
          SubmitTask(TRUE, ParsedUrl("https", "example.com"),
                     <<<<SubmitAction(FALSE, "")>>>>, <<>>),
          SubmitTask(TRUE, ParsedUrl("https", "example.com"),
                     <<<<SubmitAction(TRUE, "click"), SubmitAction(TRUE, "")>>>>,
                     <<"b">>)}

\* The requests: every array of at most MaxMixedTasks of these tasks, and the
\* longer arrays of well-formed tasks without an id.
SubmitRequests ==
    UNION {[1..n -> SubmitTaskInputs] : n \in 0..MaxMixedTasks}
    \cup {[k \in 1..n |-> GoodTask(<<>>)] : n \in (MaxMixedTasks + 1)..MaxTasks}

\* validate_task: the error message, "" standing for None.
ValidateTask(t) ==
    IF ~t.is_dict THEN "Task must be an object"
    ELSE IF t.url = <<>> THEN "Task must have a valid url field"
    ELSE IF t.url[1].scheme = "" \/ t.url[1].netloc = "" THEN "Invalid URL format"
    ELSE IF t.actions = <<>> THEN "Task must have an actions array"
    ELSE IF \E k \in 1..Len(t.actions[1]) :
                 /\ ~t.actions[1][k].is_dict
                 /\ \A j \in 1..(k - 1) :
                      t.actions[1][j].is_dict /\ t.actions[1][j].type # ""
         THEN "Action must be an object"
    ELSE IF \E k \in 1..Len(t.actions[1]) : t.actions[1][k].type = ""
         THEN "Action must have a type"
    ELSE ""

\* `if len(tasks) > 10`
TooMany_offByOne(n) == n > MaxTasksPerRequest + 1

TooMany(n) == n > MaxTasksPerRequest

\* `not task.get("task_id")`
LacksTaskId(t) == t.task_id = <<>> \/ t.task_id = <<"">>

\* generate_task_id for the task at position k: time and uuid make the ids
\* of one request differ from one another and from the ids a caller gives.
GeneratedTaskId(k) == <<"task", k>>

\* A validation loop that stops at the first task validate_task refuses.
InvalidIndices_firstOnly(ts) ==
    IF \E k \in 1..Len(ts) : ValidateTask(ts[k]) # ""
    THEN <<(CHOOSE k \in 1..Len(ts) :
               /\ ValidateTask(ts[k]) # ""
               /\ \A j \in 1..(k - 1) : ValidateTask(ts[j]) = "") - 1>>
    ELSE <<>>

\* The validation loop of submit_tasks: the indices (from 0) of the tasks
\* validate_task refuses, in order.
InvalidIndices(ts) ==
    LET RECURSIVE Walk(_)
        Walk(k) == IF k > Len(ts) THEN <<>>
                   ELSE (IF ValidateTask(ts[k]) # "" THEN <<k - 1>> ELSE <<>>)
                        \o Walk(k + 1)
    IN  Walk(1)

\* The validation loop of submit_tasks: a task that passes and has no id is
\* given one, in place.
WithTaskIds(ts) ==
    [k \in 1..Len(ts) |->
        IF ValidateTask(ts[k]) = "" /\ LacksTaskId(ts[k])
        THEN [ts[k] EXCEPT !.task_id = GeneratedTaskId(k)]
        ELSE ts[k]]

\* `validated_tasks[int(s["Id"])]`: entry ids are the positions in the
\* array (counted from 1 here, from 0 in the code).
EntryTask_first(validated, id) == validated[1]

EntryTask(validated, id) == validated[id]

\* The entries of one send call: Id and TaskId attribute of each message.
Entries(validated) ==
    [k \in 1..Len(validated) |-> [Id |-> k, TaskId |-> validated[k].task_id]]

\* The ids of a set of entries, in increasing order.
RECURSIVE IdsInOrder(_, _)
IdsInOrder(ids, n) ==
    IF n = 0 THEN <<>>
    ELSE IdsInOrder(ids, n - 1) \o (IF n \in ids THEN <<n>> ELSE <<>>)

\* A response body; the fields a response does not carry are empty.
SubmitResponse(status, error, details, queuedList, failedList) ==
    [statusCode |-> status, error |-> error, details |-> details,
     queued |-> queuedList, failed |-> failedList]

\* The "queued" and "failed" lists built from the Successful and Failed
\* entries of a send_message_batch response.
QueuedList(validated, okIds) ==
    [k \in 1..Len(okIds) |->
        [task_id |-> EntryTask(validated, okIds[k]).task_id,
         message_id |-> okIds[k]]]

FailedList(validated, badIds) ==
    [k \in 1..Len(badIds) |->
        [task_id |-> EntryTask(validated, badIds[k]).task_id,
         error |-> "Unknown error"]]

\* len(tasks) == 0 or len(tasks) > 10: 400, nothing else is done.
RejectCount ==
    /\ sub_response = <<>>
    /\ Len(sub_tasks) = 0 \/ TooMany(Len(sub_tasks))
    /\ sub_response' =
         <<SubmitResponse(400,
              IF Len(sub_tasks) = 0 THEN "Tasks array cannot be empty"
              ELSE "Maximum 10 tasks per request", <<>>, <<>>, <<>>)>>
    /\ UNCHANGED <<sub_tasks, sqs_calls, notSubmitVars>>

\* At least one task fails validate_task: 400 with the list of errors.  The
\* tasks validated before were given their ids.
RejectInvalid ==
    /\ sub_response = <<>>
    /\ Len(sub_tasks) # 0 /\ ~TooMany(Len(sub_tasks))
    /\ InvalidIndices(sub_tasks) # <<>>
    /\ sub_tasks' = WithTaskIds(sub_tasks)
    /\ sub_response' =
         <<SubmitResponse(400, "Validation failed", InvalidIndices(sub_tasks),
                          <<>>, <<>>)>>
    /\ UNCHANGED <<sqs_calls, notSubmitVars>>

\* One validated task: send_message.  The call returns (202) or raises,
\* which the handler answers with 500.
SendSingle ==
    /\ sub_response = <<>>
    /\ Len(sub_tasks) = 1
    /\ InvalidIndices(sub_tasks) = <<>>
    /\ sub_tasks' = WithTaskIds(sub_tasks)
    /\ sqs_calls' = Append(sqs_calls, Entries(sub_tasks'))
    /\ \/ sub_response' =
            <<SubmitResponse(202, "", <<>>,
                 <<[task_id |-> sub_tasks'[1].task_id, message_id |-> 1]>>,
                 <<>>)>>
       \/ sub_response' =
            <<SubmitResponse(500, "Internal server error", <<>>, <<>>, <<>>)>>
    /\ UNCHANGED notSubmitVars

\* Several validated tasks: send_message_batch.  The queue reports every
\* entry either in Successful or in Failed; the call may also raise (500).
SendBatch ==
    /\ sub_response = <<>>
    /\ Len(sub_tasks) > 1 /\ ~TooMany(Len(sub_tasks))
    /\ InvalidIndices(sub_tasks) = <<>>
    /\ sub_tasks' = WithTaskIds(sub_tasks)
    /\ sqs_calls' = Append(sqs_calls, Entries(sub_tasks'))
    /\ \/ \E ok \in SUBSET (1..Len(sub_tasks)) :
            sub_response' =
              <<SubmitResponse(202, "", <<>>,
                   QueuedList(sub_tasks', IdsInOrder(ok, Len(sub_tasks))),
                   FailedList(sub_tasks',
                       IdsInOrder((1..Len(sub_tasks)) \ ok, Len(sub_tasks))))>>
       \/ sub_response' =
            <<SubmitResponse(500, "Internal server error", <<>>, <<>>, <<>>)>>
    /\ UNCHANGED notSubmitVars

\* One request with a task array as its body; nothing else runs.
SubmitInit ==
    /\ CrawlerIdle
    /\ CacheIdle
    /\ ParseIdle
    /\ WaitIdle
    /\ CloseIdle
    /\ BuildIdle
    /\ ModelIdle
    /\ LoginIdle
    /\ PipeIdle
    /\ TransportIdle
    /\ ExtractIdle
    /\ sub_tasks \in SubmitRequests
    /\ sub_response = <<>>
    /\ sqs_calls = <<>>

SubmitNext ==
    \/ RejectCount
    \/ RejectInvalid
    \/ SendSingle
    \/ SendBatch

SubmitSpec == SubmitInit /\ [][SubmitNext]_vars

\* ------------------------------------------------ parse_task, CrawlerTask

\* Longest action list of a message body handed to parse_task.
MaxParsedActions == 2

\* How many times the same body is handed to parse_task.
MaxParses == 2

\* A URL string, by the parts a URL parser finds in it; a string without
\* "scheme://" has no scheme and no host and is kept whole as the path.
UrlString(scheme, host, path, query) ==
    [scheme |-> scheme, host |-> host, path |-> path, query |-> query]

\* The URL strings of tests/test_crawler.py (TestURLValidation and
\* test_invalid_url_rejected), and two more with a scheme: one that is not
\* http(s) and one without a host.
UrlInputs ==
    {UrlString("https", "example.com", "", ""),
     UrlString("https", "example.com", "/path", ""),
     UrlString("https", "example.com", "/path", "query=1"),
     UrlString("https", "sub.example.com", "", ""),
     UrlString("http", "example.com", "", ""),
     UrlString("", "", "not-a-url", ""),
     UrlString("", "", "not-a-valid-url", ""),
     UrlString("", "", "example.com", ""),
     UrlString("", "", "", ""),
     UrlString("ftp", "example.com", "", ""),
     UrlString("https", "", "", "")}

\* Mutant: any URL with a scheme and a host passes.
HttpUrlValid_anyScheme(u) == u.scheme # "" /\ u.host # ""

\* `url: HttpUrl`: the scheme is http or https and there is a host.
HttpUrlValid(u) == u.scheme \in {"http", "https"} /\ u.host # ""

\* HttpUrl keeps the URL normalised: an empty path becomes "/"
\* (str(task.url) == "https://example.com/").
HttpUrl(u) == [u EXCEPT !.path = IF u.path = "" THEN "/" ELSE u.path]

\* TaskConfig() and dict(): the default_factory values of config and
\* metadata.
DefaultConfig == "TaskConfig()"
DefaultMetadata == "{}"

\* The action dicts the bodies carry: a tagged click, the same without its
\* tag (several members of the Union accept it) and one with an unknown tag.
BodyActionInputs ==
    {[has_type |-> TRUE, type |-> "click", fields |-> {"xpath"}],
     [has_type |-> FALSE, type |-> "", fields |-> {"xpath"}],
     [has_type |-> TRUE, type |-> "bogus", fields |-> {}]}

\* A decoded body: each key is absent (<<>>) or carries a value (<<v>>).
BodyDicts ==
    [is_json  : {TRUE},
     task_id  : {<<>>, <<"">>, <<"a">>},
     url      : {<<>>} \cup {<<u>> : u \in UrlInputs},
     actions  : {<<>>} \cup {<<l>> : l \in ActionListsOver(BodyActionInputs,
                                                          MaxParsedActions)},
     config   : {<<>>, <<"custom">>},
     metadata : {<<>>, <<"source=test">>}]

\* A body json.loads rejects.
NotJson ==
    [is_json |-> FALSE, task_id |-> <<>>, url |-> <<>>, actions |-> <<>>,
     config |-> <<>>, metadata |-> <<>>]

\* The Union member each action dict resolves to ("" when no member accepts
\* it).  Which member a dict that several accept resolves to depends on the
\* pydantic version; it is the same for every call in one process.
UnionPicks ==
    {f \in [BodyActionInputs -> ActionTypes \cup {""}] :
        \A p \in BodyActionInputs :
            IF Candidates(p) = {} THEN f[p] = "" ELSE f[p] \in Candidates(p)}

\* Mutant: an id is generated whatever the body carries.
NeedsTaskId_always(d) == TRUE

\* `if "task_id" not in data or not data["task_id"]`
NeedsTaskId(d) == d.task_id = <<>> \/ d.task_id = <<"">>

\* generate_task_id: the n-th id generated in this process; the time stamp
\* and the uuid part make the ids differ from one another.  An id is kept
\* as the body carries it: <<the string>>.
GenerateTaskId(n) == <<"task", n>>

\* CrawlerTask(**data) raises ValidationError: url or actions is missing,
\* the url is not an HttpUrl, or an action fits no member of the Union.
TaskInvalid(d, pick) ==
    \/ d.url = <<>>
    \/ d.actions = <<>>
    \/ ~HttpUrlValid(d.url[1])
    \/ \E k \in 1..Len(d.actions[1]) : pick[d.actions[1][k]] = ""

\* CrawlerTask(**data), data carrying the task_id.
BuildTask(d, task_id, pick) ==
    [task_id  |-> task_id,
     url      |-> HttpUrl(d.url[1]),
     actions  |-> [k \in 1..Len(d.actions[1]) |->
                     [type |-> pick[d.actions[1][k]],
                      fields |-> d.actions[1][k].fields]],
     config   |-> IF d.config = <<>> THEN DefaultConfig ELSE d.config[1],
     metadata |-> IF d.metadata = <<>> THEN DefaultMetadata ELSE d.metadata[1]]

\* What a parse_task call ends with: the task it returns or the exception
\* it raises.
ParseResult(status, built) == [status |-> status, task |-> built]

\* parse_task, whole: json.loads, the id, CrawlerTask(**data).
ParseTask ==
    /\ Len(parse_results) < MaxParses
    /\ task_body # <<>>
    /\ LET d    == task_body
           gen  == d.is_json /\ NeedsTaskId(d)
           id   == IF gen THEN GenerateTaskId(ids_generated + 1) ELSE d.task_id
       IN  /\ ids_generated' = IF gen THEN ids_generated + 1 ELSE ids_generated
           /\ parse_results' =
                Append(parse_results,
                  IF ~d.is_json THEN ParseResult("ValueError", <<>>)
                  ELSE IF TaskInvalid(d, union_pick)
                       THEN ParseResult("ValidationError", <<>>)
                  ELSE ParseResult("task", <<BuildTask(d, id, union_pick)>>))
    /\ UNCHANGED <<task_body, union_pick, notBuildVars>>

\* One message body, about to be parsed; nothing else runs.
BuildInit ==
    /\ CrawlerIdle
    /\ CacheIdle
    /\ ParseIdle
    /\ WaitIdle
    /\ CloseIdle
    /\ SubmitIdle
    /\ ModelIdle
    /\ LoginIdle
    /\ PipeIdle
    /\ TransportIdle
    /\ ExtractIdle
    /\ task_body \in BodyDicts \cup {NotJson}
    /\ union_pick \in UnionPicks
    /\ ids_generated = 0
    /\ parse_results = <<>>

BuildNext == ParseTask

BuildSpec == BuildInit /\ [][BuildNext]_vars

\* ------------------------------------------- construction of action models

\* The keywords by which the tests name an element: `selector` fields.
SelectorNames ==
    {"selector", "username_selector", "password_selector", "submit_selector"}

\* The keywords a constructor call is given: any of the required fields of
\* the models and any of the `selector` names.
KeywordNames == FieldNames \cup SelectorNames

\* The fields an action model declares besides `type` and its required ones.
OptionalFields(variant) ==
    CASE variant = "login" -> {"secret_key", "wait_after_submit"}
      [] variant = "click" -> {"wait_for_navigation", "delay"}
      [] variant = "fill" -> {"clear_first"}
      [] variant = "wait" -> {"xpath", "state", "timeout", "delay"}
      [] variant = "extract" -> {"attribute", "multiple"}
      [] variant = "screenshot" -> {"xpath", "full_page", "name"}
      [] variant = "navigate" -> {"wait_until"}
      [] variant = "select" -> {"by_label"}
      [] variant = "hover" -> {}
      [] variant = "scroll" -> {"xpath", "x", "y"}
      [] variant = "evaluate" -> {"name"}

\* The attributes an instance of the model has: its declared fields.
DeclaredFields(variant) ==
    {"type"} \cup RequiredFields(variant) \cup OptionalFields(variant)

\* LoginAction(...), ClickAction(...), ...: a required field that is not
\* given raises ValidationError; a keyword that is no field of the model is
\* ignored (pydantic's default for extra keywords), so the instance has the
\* declared fields only, and holds the given value for those that were given.
ConstructModel(variant, kwargs) ==
    IF RequiredFields(variant) \subseteq kwargs
    THEN [status |-> "built", attrs |-> DeclaredFields(variant),
          given |-> kwargs \cap DeclaredFields(variant)]
    ELSE [status |-> "ValidationError", attrs |-> {}, given |-> {}]

\* The call of a model class.
Construct ==
    /\ ctor # <<>>
    /\ instance = <<>>
    /\ instance' = <<ConstructModel(ctor[1].model, ctor[1].kwargs)>>
    /\ UNCHANGED <<ctor, notModelVars>>

\* One constructor call, about to be made; nothing else runs.
ModelInit ==
    /\ CrawlerIdle
    /\ CacheIdle
    /\ ParseIdle
    /\ WaitIdle
    /\ CloseIdle
    /\ SubmitIdle
    /\ BuildIdle
    /\ LoginIdle
    /\ PipeIdle
    /\ TransportIdle
    /\ ExtractIdle
    /\ ctor \in {<<[model |-> v, kwargs |-> k]>> :
                    v \in ActionTypes, k \in SUBSET KeywordNames}
    /\ instance = <<>>

ModelNext == Construct

ModelSpec == ModelInit /\ [][ModelNext]_vars

\* ----------------------------------------------------------- execute_login

\* The LoginAction instances execute_login is called with: the three xpaths
\* are required; secret_key and wait_after_submit (ms) are Optional.
LoginInputs ==
    [username_xpath : {"//input[@id='email']"},
     password_xpath : {"//input[@id='password']"},
     submit_xpath : {"//button"},
     secret_key : {None, <<"k">>},
     wait_after_submit : {None, <<0>>, <<500>>, <<2000>>}]

\* A call of the credential collaborator or of the page, and whether it
\* raised.
LoginOp(op, arg) == [op |-> op, arg |-> arg, raised |-> FALSE]

\* Mutant: a failed credential lookup is swallowed and the login goes on.
LookupRaisedPc_continues == "wait_username"

\* Where execute_login stands after get_credentials raised: nothing in
\* execute_login catches it, so the call ends with the exception.
LookupRaisedPc == "raised"

\* One statement of execute_login that makes a call: the call returns and
\* the next statement is reached, or it raises and execute_login ends with
\* the exception.
LoginCall(op, to, raisedPc) ==
    /\ \/ /\ login_ops' = Append(login_ops, op)
          /\ login_pc' = to
       \/ /\ login_ops' = Append(login_ops, [op EXCEPT !.raised = TRUE])
          /\ login_pc' = raisedPc
    /\ UNCHANGED <<login_action, notLoginVars>>

\* credentials = secrets_manager.get_credentials(action.secret_key)
GetCredentials ==
    /\ login_pc = "get_credentials"
    /\ LoginCall(LoginOp("get_credentials", login_action.secret_key),
              "wait_username", LookupRaisedPc)

\* await page.wait_for_selector(username_sel, state="visible")
WaitUsername ==
    /\ login_pc = "wait_username"
    /\ LoginCall(LoginOp("wait_for_selector",
                      <<XPathSelector(login_action.username_xpath), "visible">>),
              "fill_username", "raised")

\* await page.fill(username_sel, credentials.username)
FillUsername ==
    /\ login_pc = "fill_username"
    /\ LoginCall(LoginOp("fill", <<XPathSelector(login_action.username_xpath),
                                "credentials.username">>),
              "wait_password", "raised")

\* await page.wait_for_selector(password_sel, state="visible")
WaitPassword ==
    /\ login_pc = "wait_password"
    /\ LoginCall(LoginOp("wait_for_selector",
                      <<XPathSelector(login_action.password_xpath), "visible">>),
              "fill_password", "raised")

\* await page.fill(password_sel, credentials.password)
FillPassword ==
    /\ login_pc = "fill_password"
    /\ LoginCall(LoginOp("fill", <<XPathSelector(login_action.password_xpath),
                                "credentials.password">>),
              "expect_navigation", "raised")

\* async with page.expect_navigation(wait_until="domcontentloaded"): the
\* wait for a navigation is set up before the click.
ExpectNavigation ==
    /\ login_pc = "expect_navigation"
    /\ login_ops' = Append(login_ops,
                           LoginOp("expect_navigation", <<"domcontentloaded">>))
    /\ login_pc' = "click"
    /\ UNCHANGED <<login_action, notLoginVars>>

\* await page.click(submit_sel), inside the expect_navigation block.
ClickSubmit ==
    /\ login_pc = "click"
    /\ LoginCall(LoginOp("click", <<XPathSelector(login_action.submit_xpath)>>),
              "navigation", "raised")

\* Mutant: the delay is awaited whenever the field is not None.
DelayWanted_notNone(action) == action.wait_after_submit # None

\* `if action.wait_after_submit:`
DelayWanted(action) == TruthyInt(action.wait_after_submit)

\* The exit of the expect_navigation block: the navigation is awaited; it
\* starts, or the wait times out and raises.
AwaitNavigation ==
    /\ login_pc = "navigation"
    /\ LoginCall(LoginOp("navigation", <<>>),
              IF DelayWanted(login_action) THEN "delay" ELSE "returned",
              "raised")

\* await page.wait_for_timeout(action.wait_after_submit)
PostSubmitDelay ==
    /\ login_pc = "delay"
    /\ LoginCall(LoginOp("wait_for_timeout", login_action.wait_after_submit),
              "returned", "raised")

\* execute_login is about to be called with some LoginAction.
LoginInit ==
    /\ CrawlerIdle
    /\ CacheIdle
    /\ ParseIdle
    /\ WaitIdle
    /\ CloseIdle
    /\ SubmitIdle
    /\ BuildIdle
    /\ ModelIdle
    /\ PipeIdle
    /\ TransportIdle
    /\ ExtractIdle
    /\ login_action \in LoginInputs
    /\ login_pc = "get_credentials"
    /\ login_ops = <<>>

LoginNext ==
    \/ GetCredentials
    \/ WaitUsername
    \/ FillUsername
    \/ WaitPassword
    \/ FillPassword
    \/ ExpectNavigation
    \/ ClickSubmit
    \/ AwaitNavigation
    \/ PostSubmitDelay

LoginSpec == LoginInit /\ [][LoginNext]_vars

\* ------------------------------------ from the submitter to the crawler

\* What validate_task reads of a task dict: urlparse finds the scheme and
\* the netloc of the "url" string (none in a string without "scheme://"),
\* and of every action only its "type" is looked at.
SubmitView(d) ==
    [is_dict |-> TRUE,
     url     |-> IF d.url = <<>> \/ d.url[1] = UrlString("", "", "", "")
                 THEN <<>>
                 ELSE <<[scheme |-> d.url[1].scheme, netloc |-> d.url[1].host]>>,
     actions |-> IF d.actions = <<>> THEN <<>>
                 ELSE <<[k \in 1..Len(d.actions[1]) |->
                           [is_dict |-> TRUE,
                            type |-> IF d.actions[1][k].has_type
                                     THEN d.actions[1][k].type ELSE ""]]>>,
     task_id |-> d.task_id]

\* submit_tasks on a request of this one task: validate_task refuses it
\* (400, nothing is sent) or the task is given an id when it has none and
\* json.dumps(task) is sent to the queue.
SubmitOne ==
    /\ submission = ""
    /\ task_body # <<>>
    /\ IF ValidateTask(SubmitView(task_body)) # ""
       THEN /\ submission' = "refused"
            /\ UNCHANGED task_body
       ELSE /\ submission' = "enqueued"
            /\ task_body' = [task_body EXCEPT !.task_id =
                               IF LacksTaskId(task_body)
                               THEN GeneratedTaskId(1) ELSE @]
    /\ UNCHANGED <<crawlerVars, cacheVars, parseVars, waitVars, closeVars,
                   submitVars, modelVars, loginVars, transportVars, extractVars,
                   union_pick,
                   ids_generated, parse_results>>

\* The crawler receives the message and parses its body.
Deliver ==
    /\ submission = "enqueued"
    /\ ParseTask

\* One task dict, about to be submitted; nothing else runs.
PipeInit ==
    /\ CrawlerIdle
    /\ CacheIdle
    /\ ParseIdle
    /\ WaitIdle
    /\ CloseIdle
    /\ SubmitIdle
    /\ ModelIdle
    /\ LoginIdle
    /\ TransportIdle
    /\ ExtractIdle
    /\ task_body \in BodyDicts
    /\ union_pick \in UnionPicks
    /\ ids_generated = 0
    /\ parse_results = <<>>
    /\ submission = ""

PipeNext ==
    \/ SubmitOne
    \/ Deliver

PipeSpec == PipeInit /\ [][PipeNext]_vars

\* How many entries of a list equal x.
CountOf(seq, x) == Cardinality({k \in 1..Len(seq) : seq[k] = x})

\* ------------------------------------------------------------ redelivery

\* Longest batch that is followed through its redeliveries, and how often
\* the transport redelivers.
MaxRedeliveredBatch == 2
MaxRedeliveries == 3

\* process_batch has returned its SQSBatchResponse: the transport hands the
\* records named in batchItemFailures, identifiers and bodies unchanged, to
\* a new invocation of the handler; the others are deleted from the queue.
Redeliver ==
    /\ pc = "done"
    /\ batch_item_failures # <<>>
    /\ redeliveries < MaxRedeliveries
    /\ redeliveries' = redeliveries + 1
    /\ records' = SelectSeq(records,
                     LAMBDA r : CountOf(batch_item_failures, r.messageId) > 0)
    /\ idx' = 0
    /\ batch_item_failures' = <<>>
    /\ log' = <<>>
    /\ pc' = "batch"
    /\ UNCHANGED <<leaked, taskVars, cacheVars, parseVars, waitVars, closeVars,
                   submitVars, buildVars, modelVars, loginVars, pipeVars,
                   extractVars>>

\* A batch of at most MaxRedeliveredBatch records, its tasks of at most one
\* Click, delivered for the first time.
RedeliverInit == InitWith(Batches(MaxRedeliveredBatch))

RedeliverNext ==
    \/ ParseFail
    \/ ParseOk(ActionLists({"click"}, 1))
    \/ BatchDone
    \/ TaskStep
    \/ Redeliver

\* An invocation of the handler runs to its return, and the transport
\* redelivers what was reported failed.
RedeliverSpec ==
    RedeliverInit /\ [][RedeliverNext]_vars /\ WF_vars(RedeliverNext)

\* ------------------------------------------------- screenshot storage keys

\* Longest action list of a task whose storage keys are followed (KeySpec).
MaxKeyActions == 2

\* The actions of such a task: Screenshots, not named or given one of three
\* names, two of which differ in one character only.
KeyActions == [type : {"screenshot"}, name : {"", "s1", "s 1", "s_1"}]

\* The characters of a name given in a task, a run of letters or digits
\* counting as one.
NameChars(name) ==
    CASE name = "s1" -> <<"s1">>
      [] name = "s 1" -> <<"s", " ", "1">>
      [] name = "s_1" -> <<"s", "_", "1">>

\* The name execute_screenshot hands to save_screenshot for a reference of
\* the result: the one given, or f"screenshot-{int(time.time() * 1000)}",
\* whose time is later for a later action.
SavedName(ref) ==
    IF ref.name = "screenshot-ms"
    THEN <<"screenshot", "-", ToString(ref.taken_by)>>
    ELSE NameChars(ref.name)

\* `c.isalnum()`, over the characters above.
IsAlnum(c) == c \notin {" ", "-", "_"}

\* `"".join(c if c.isalnum() or c in "-_" else "_" for c in name)`
SanitizedName(chars) ==
    [k \in 1..Len(chars) |->
        IF IsAlnum(chars[k]) \/ chars[k] \in {"-", "_"} THEN chars[k] ELSE "_"]

\* _generate_screenshot_key:
\* f"screenshots/{date_prefix}/{task_id}/{sanitized_name}.png".
GenerateScreenshotKey(date_prefix, task_id, chars) ==
    [date_prefix |-> date_prefix, task_id |-> task_id,
     sanitized_name |-> SanitizedName(chars)]

\* The s3_key of the k-th reference of the result; the task runs within one
\* day, so `_get_date_prefix(datetime.utcnow())` is the same at every save.
S3Key(k) ==
    GenerateScreenshotKey("today", task.task_id, SavedName(result.screenshots[k]))

\* A batch of at most one record, its task of up to MaxKeyActions
\* Screenshot actions.
KeyNext ==
    \/ ParseFail
    \/ ParseOk(ActionListsOver(KeyActions, MaxKeyActions))
    \/ BatchDone
    \/ TaskStep

KeySpec == TaskInit /\ [][KeyNext]_vars

\* --------------------------------------------------------- execute_extract

\* Most elements the locator of an Extract action matches.
MaxMatches == 2

\* The elements of the page: what inner_text and inner_html read from them
\* and their `href` attribute (None: the element has none).
PageElements ==
    {[inner_text |-> "t1", inner_html |-> "<b>t1</b>", href |-> <<"u1">>],
     [inner_text |-> "t2", inner_html |-> "<i>t2</i>", href |-> None]}

\* The Extract actions: with and without the multiple flag, reading the
\* text, the markup or an attribute.
ExtractInputs ==
    [multiple : BOOLEAN, attribute : {"inner_text", "inner_html", "href"},
     name : {"a"}]

\* The if / elif / else on action.attribute: inner_text(), inner_html() or
\* `get_attribute(action.attribute) or ""`.
ReadElement(element, attribute) ==
    CASE attribute = "inner_text" -> element.inner_text
      [] attribute = "inner_html" -> element.inner_html
      [] OTHER -> IF element.href = None THEN "" ELSE element.href[1]

\* Mutant: the value read is put at the front of the list.
AppendValue_prepends(values, value) == <<value>> \o values

\* `values.append(...)`
AppendValue(values, value) == Append(values, value)

\* The values of the returned dict: a list, or a scalar (items holds it).
ListValue(values) == [is_list |-> TRUE, items |-> values]

ScalarValue(value) == [is_list |-> FALSE, items |-> <<value>>]

\* How an execute_extract call ended: `return {action.name: ...}`, or the
\* exception of a page operation, which nothing in execute_extract catches.
ExtractReturned(name, value) ==
    [kind |-> "return", data |-> DictPut(EmptyDict, name, value)]

ExtractRaised == [kind |-> "raise", data |-> EmptyDict]

\* `if action.multiple:` elements = page.locator(selector),
\* count = await elements.count(), values = [].
ExtractCount ==
    /\ extract_pc = "start"
    /\ extract_action[1].multiple
    /\ extract_pc' = "loop"
    /\ extract_i' = 0
    /\ extract_values' = <<>>
    /\ UNCHANGED <<extract_action, extract_page, extract_ret, notExtractVars>>

\* One pass of `for i in range(count)`: the i-th match is read and its value
\* appended, or the read raises (the element is gone: TimeoutError).
ExtractNth ==
    /\ extract_pc = "loop"
    /\ extract_i < Len(extract_page)
    /\ \/ /\ extract_values' =
               AppendValue(extract_values,
                           ReadElement(extract_page[extract_i + 1],
                                       extract_action[1].attribute))
          /\ extract_i' = extract_i + 1
          /\ UNCHANGED <<extract_pc, extract_ret>>
       \/ /\ extract_pc' = "raised"
          /\ extract_ret' = <<ExtractRaised>>
          /\ UNCHANGED <<extract_i, extract_values>>
    /\ UNCHANGED <<extract_action, extract_page, notExtractVars>>

\* The loop is exhausted: `return {action.name: values}`.
ExtractReturnList ==
    /\ extract_pc = "loop"
    /\ extract_i = Len(extract_page)
    /\ extract_pc' = "returned"
    /\ extract_ret' =
         <<ExtractReturned(extract_action[1].name, ListValue(extract_values))>>
    /\ UNCHANGED <<extract_action, extract_page, extract_i, extract_values,
                   notExtractVars>>

\* `else:` element = page.locator(selector).first is read and
\* `{action.name: value}` returned; the read raises TimeoutError when
\* nothing matches, and may raise when the element is gone.
ExtractFirst ==
    /\ extract_pc = "start"
    /\ ~extract_action[1].multiple
    /\ \/ /\ extract_page # <<>>
          /\ extract_pc' = "returned"
          /\ extract_ret' =
               <<ExtractReturned(extract_action[1].name,
                    ScalarValue(ReadElement(extract_page[1],
                                            extract_action[1].attribute)))>>
       \/ /\ extract_pc' = "raised"
          /\ extract_ret' = <<ExtractRaised>>
    /\ UNCHANGED <<extract_action, extract_page, extract_i, extract_values,
                   notExtractVars>>

\* One execute_extract call on a page where the locator matches at most
\* MaxMatches elements; nothing else runs.
ExtractInit ==
    /\ CrawlerIdle
    /\ CacheIdle
    /\ ParseIdle
    /\ WaitIdle
    /\ CloseIdle
    /\ SubmitIdle
    /\ BuildIdle
    /\ ModelIdle
    /\ LoginIdle
    /\ PipeIdle
    /\ TransportIdle
    /\ extract_action \in {<<a>> : a \in ExtractInputs}
    /\ extract_page \in UNION {[1..n -> PageElements] : n \in 0..MaxMatches}
    /\ extract_pc = "start"
    /\ extract_i = 0
    /\ extract_values = <<>>
    /\ extract_ret = <<>>

ExtractNext ==
    \/ ExtractCount
    \/ ExtractNth
    \/ ExtractReturnList
    \/ ExtractFirst

ExtractSpec == ExtractInit /\ [][ExtractNext]_vars

\* ================================================================ claims

\* How many ErrorInfo of a list carry the label.
CountLabel(errors, label) ==
    Cardinality({k \in 1..Len(errors) : errors[k].action = label})


\* The type of the action at (0-based) index j of the running task.
TypeAt(j) == task.actions[j + 1].type

\* The `async with` block has been left (close has run or is about to).
BodyLeft == pc \in {"aexit", "except", "finally", "after"}

\* The outer handler is behind: the result is final.
Finalized == pc \in {"finally", "after"}

\* C1: when a Login or Navigate action fails at index i, the result holds
\* exactly one ErrorInfo labeled type[i], once finalized exactly one labeled
\* "task" (none before), and no action with an index above i is ever started.
C1_FatalActionHalts ==
    \A n \in 1..Len(failed) :
        LET j == failed[n] IN
        TypeAt(j) \in {"login", "navigate"} =>
            /\ CountLabel(result.errors, <<TypeAt(j), j>>) = 1
            /\ CountLabel(result.errors, <<"task">>) = (IF Finalized THEN 1 ELSE 0)
            /\ \A m \in 1..Len(executed) : executed[m] <= j
            /\ BodyLeft

\* A Navigate at index 1 of three actions failed, and the run is finished
\* with the third action never started.
C1_Witness ==
    /\ pc = "after"
    /\ Len(task.actions) = 3
    /\ failed = <<1>>
    /\ TypeAt(1) = "navigate"
    /\ executed = <<0, 1>>

\* C2: an action of a type other than Login and Navigate that fails at index
\* i leaves exactly one ErrorInfo labeled type[i]; the loop goes on, so the
\* action at i+1 (if any) is started; and when no Login / Navigate failed,
\* every action of the list is started and no "task" ErrorInfo is appended.
C2_NonFatalContinues ==
    \A n \in 1..Len(failed) :
        LET j == failed[n] IN
        TypeAt(j) \notin {"login", "navigate"} =>
            /\ CountLabel(result.errors, <<TypeAt(j), j>>) = 1
            /\ (BodyLeft /\ j + 1 < Len(task.actions))
                   => CountOf(executed, j + 1) = 1
            /\ (BodyLeft /\ \A m \in 1..Len(failed) :
                                TypeAt(failed[m]) \notin {"login", "navigate"})
                   => /\ executed = [m \in 1..Len(task.actions) |-> m - 1]
                      /\ CountLabel(result.errors, <<"task">>) = 0

\* C3: in a finished run, success is false if a "task" ErrorInfo exists and
\* equals (the error list is empty) otherwise; success is never true while
\* the list holds a "task" entry.
C3_SuccessFlag ==
    /\ Finalized =>
           IF CountLabel(result.errors, <<"task">>) > 0
           THEN result.success = FALSE
           ELSE result.success = (result.errors = <<>>)
    /\ result.success => CountLabel(result.errors, <<"task">>) = 0

\* A run of three actions is finished with no error and success set.
C3_Witness ==
    /\ pc = "after"
    /\ executed = <<0, 1, 2>>
    /\ result.errors = <<>>
    /\ result.success

\* C4: process_task raised iff its result held a "task" ErrorInfo; and a run
\* in which only actions of types other than Login and Navigate failed
\* returned and its identifier is not in the batch failure list.
C4_RaiseIffTaskError ==
    \A k \in 1..Len(log) :
        log[k].parsed =>
            /\ log[k].raised <=> log[k].fatal
            /\ log[k].partial =>
                   /\ ~log[k].raised
                   /\ CountOf(batch_item_failures, log[k].messageId) = 0

\* C5: the failure list names exactly the handled records whose payload did
\* not parse / validate or whose task ended with a "task" ErrorInfo, each
\* once and under its own identifier, and nothing else.
C5_ReportExact ==
    /\ Len(log) = idx
    /\ \A k \in 1..idx :
           CountOf(batch_item_failures, records[k].messageId)
               = (IF records[k].body # "valid" \/ log[k].fatal THEN 1 ELSE 0)
    /\ \A n \in 1..Len(batch_item_failures) :
           \E k \in 1..idx : batch_item_failures[n] = records[k].messageId

\* A finished batch of three: an invalid payload, a fatal task and a task
\* that succeeded; exactly the first two are reported.
C5_Witness ==
    /\ pc = "done"
    /\ Len(records) = 3
    /\ records[1].body = "invalid"
    /\ records[2].body = "valid" /\ log[2].fatal
    /\ records[3].body = "valid" /\ ~log[3].fatal
    /\ batch_item_failures = <<1, 2>>

\* C6: when process_batch is done every record of the batch was handled in
\* order (a valid one ran to its save_result), whatever failed before it;
\* in a batch of three whose second payload is invalid JSON and whose other
\* two tasks are not fatal, exactly the second identifier is reported.
C6_SiblingsUnaffected ==
    pc = "done" =>
        /\ idx = Len(records)
        /\ Len(log) = Len(records)
        /\ \A k \in 1..Len(records) :
               /\ log[k].messageId = records[k].messageId
               /\ log[k].parsed = (records[k].body = "valid")
               /\ log[k].saves = (IF records[k].body = "valid" THEN 1 ELSE 0)
        /\ ( /\ Len(records) = 3
             /\ records[1].body = "valid" /\ ~log[1].fatal
             /\ records[2].body = "badjson"
             /\ records[3].body = "valid" /\ ~log[3].fatal )
               => batch_item_failures = <<records[2].messageId>>

\* The batch of three with invalid JSON in the middle is done; items 1 and 3
\* ran, only item 2 is reported.
C6_Witness ==
    /\ pc = "done"
    /\ Len(records) = 3
    /\ records[1].body = "valid" /\ records[2].body = "badjson"
    /\ records[3].body = "valid"
    /\ log[1].parsed /\ log[1].saves = 1 /\ log[3].parsed /\ log[3].saves = 1
    /\ batch_item_failures = <<2>>

\* C7: save_result is called exactly once per process_task call, after the
\* result is final and before the call raises or returns: none before the
\* finally block, one at the point of the raise, one for every ended call.
C7_SavedOnceBeforeReport ==
    /\ pc \in {"launch", "new_page", "goto", "actions", "aexit", "except", "finally"}
           => Len(savedArgs) = 0
    /\ pc = "after" => Len(savedArgs) = 1
    /\ \A k \in 1..Len(log) : log[k].parsed => log[k].saves = 1

\* A fatal task was reported failed, with its one save_result call behind it.
C7_Witness ==
    \E k \in 1..Len(log) :
        log[k].parsed /\ log[k].fatal /\ log[k].raised /\ log[k].saves = 1

\* C8: a save_result that raised leaves the result as it was handed over (no
\* ErrorInfo added, success unchanged), and the step after it reports the
\* record failed iff that result holds a "task" ErrorInfo.
C8_SaveFailureSwallowed ==
    /\ [](pc = "after" => result = savedArgs[1])
    /\ [][(pc = "after" /\ saveFailed) =>
            /\ pc' = "batch"
            /\ (batch_item_failures' # batch_item_failures)
                   <=> (CountLabel(savedArgs[1].errors, <<"task">>) > 0)]_vars

\* save_result raised for a task whose actions all succeeded: the record is
\* about to be acknowledged.
C8_Witness ==
    /\ pc = "after"
    /\ saveFailed
    /\ result.success
    /\ Len(executed) > 0

\* C9: once close has run, the manager holds no context, browser or
\* playwright handle.
C9_SessionReleased ==
    pc \in {"except", "finally", "after"} => ~HoldsHandle(bm)

\* C10: at most one browser session is live at any time.
C10_OneLiveSession == LiveSessions <= 1

\* C11: the actions started so far are actions 0, 1, ..., k-1 of the list,
\* in this order and each once (a prefix of the input list); while the loop
\* runs, the next action to start is action k, so every action started
\* before it has finished; an action that failed was started.
C11_ListOrder ==
    /\ Len(executed) <= Len(task.actions)
    /\ \A m \in 1..Len(executed) : executed[m] = m - 1
    /\ pc = "actions" => i = Len(executed)
    /\ \A n \in 1..Len(failed) : \E m \in 1..Len(executed) : executed[m] = failed[n]

\* The loop stands between the second and the third action of a list of
\* three.
C11_Witness ==
    /\ pc = "actions"
    /\ Len(task.actions) = 3
    /\ executed = <<0, 1>>
    /\ i = 2

\* str(e) of the exceptions of session acquisition and initial navigation.
SessionFailures == {<<"launch">>, <<"new_page">>, <<"goto">>}

\* The result records a failure of session acquisition or initial navigation.
SessionFailed ==
    \E k \in 1..Len(result.errors) : result.errors[k].message \in SessionFailures

\* C12: a launch, new_page or initial goto that fails leaves the block with
\* its exception and no action started; the outer handler turns it into the
\* only ErrorInfo of the result, labeled "task", with success false; that
\* result is handed to save_result once; the record is then reported failed.
C12_SessionFailureFatal ==
    /\ [][(pc \in {"launch", "new_page", "goto"} /\ pc' = "aexit")
            => exc' \in SessionFailures]_vars
    /\ [](exc \in SessionFailures =>
            /\ pc \in {"aexit", "except"}
            /\ executed = <<>>
            /\ result.errors = <<>>
            /\ ~result.success)
    /\ [][(pc = "except" /\ exc \in SessionFailures) =>
            /\ pc' = "finally"
            /\ result'.errors = <<[action |-> <<"task">>, message |-> exc]>>]_vars
    /\ []((SessionFailed /\ pc \in {"finally", "after"}) =>
            /\ Len(result.errors) = 1
            /\ result.errors[1].action = <<"task">>
            /\ ~result.success
            /\ executed = <<>>
            /\ pc = "after" => savedArgs = <<result>>)
    /\ [][(pc = "after" /\ SessionFailed) =>
            batch_item_failures' =
                Append(batch_item_failures, records[idx + 1].messageId)]_vars

\* The initial navigation of a task with actions failed; its result was
\* handed to save_result.
C12_Witness ==
    /\ pc = "after"
    /\ Len(task.actions) > 0
    /\ result.errors = <<[action |-> <<"task">>, message |-> <<"goto">>]>>
    /\ savedArgs = <<result>>

\* The result records a Login whose credential lookup raised.
CredentialLookupFailed ==
    \E k \in 1..Len(result.errors) :
        /\ Len(result.errors[k].message) = 3
        /\ result.errors[k].message[1] = "login"
        /\ result.errors[k].message[3] = "get_credentials"

\* C13: once a Login's credential lookup has raised, the loop is left and
\* success stays false; the final result holds one "task" ErrorInfo and is
\* handed to save_result once; the record is then reported failed.
C13_CredentialFailureFatal ==
    /\ [](CredentialLookupFailed =>
            /\ pc \in {"aexit", "except", "finally", "after"}
            /\ ~result.success
            /\ pc \in {"finally", "after"}
                   => CountLabel(result.errors, <<"task">>) = 1
            /\ pc = "after" => savedArgs = <<result>>)
    /\ [][(pc = "after" /\ CredentialLookupFailed) =>
            batch_item_failures' =
                Append(batch_item_failures, records[idx + 1].messageId)]_vars

\* The credential lookup of a Login that is the second action raised; the
\* result was handed to save_result.
C13_Witness ==
    /\ pc = "after"
    /\ CredentialLookupFailed
    /\ failed = <<1>>
    /\ savedArgs = <<result>>

\* C14: a task whose only action is an Extract that raised ends with exactly
\* one ErrorInfo, labeled extract[0], and success true.
C14_ExtractMissing ==
    (/\ pc = "after"
     /\ Len(task.actions) = 1
     /\ task.actions[1].type = "extract"
     /\ failed = <<0>>)
    => /\ Len(result.errors) = 1
       /\ result.errors[1].action = <<"extract", 0>>
       /\ result.success

\* C15: the step that handles a record whose body does not parse or validate
\* records its identifier, goes on to the next record and acquires no
\* session, starts no action and hands nothing to save_result; a task is
\* only ever in progress for a record whose body is valid.
C15_ParseFailureNoExecution ==
    /\ [][(pc = "batch" /\ idx < Len(records)
              /\ records[idx + 1].body # "valid") =>
            /\ batch_item_failures' =
                   Append(batch_item_failures, records[idx + 1].messageId)
            /\ idx' = idx + 1
            /\ pc' = "batch"
            /\ UNCHANGED <<bm, leaked, executed, savedArgs>>]_vars
    /\ []((pc \notin {"batch", "done"} \/ HoldsHandle(bm)
              \/ executed # <<>> \/ savedArgs # <<>>)
            => (idx < Len(records) /\ records[idx + 1].body = "valid"))
    /\ [](\A k \in 1..Len(log) :
            records[k].body # "valid" =>
                /\ ~log[k].parsed
                /\ log[k].saves = 0
                /\ CountOf(batch_item_failures, records[k].messageId) = 1)

\* A batch of an invalid task and a valid one is done: the first record is
\* reported failed without a run, the second one ran.
C15_Witness ==
    /\ pc = "done"
    /\ Len(records) = 2
    /\ records[1].body = "invalid"
    /\ ~log[1].parsed
    /\ log[2].parsed
    /\ batch_item_failures[1] = records[1].messageId

\* The call of caller c takes a step.
CallSteps(c) == call'[c] # call[c]

\* The entry the call of caller c looks at is in the cache.
EntryPresent(c) == call[c].secret_id \in DOMAIN secrets_cache

\* The time that entry was stored at.
StoredAt(c) == secrets_cache[call[c].secret_id].stored_at

\* C16: an entry stored at time t expires at t + 300.  A call that reads it
\* at a time before t + 300 returns its credentials and leaves the cache as
\* it is; a call that reads it at t + 300 or later does not return it: the
\* entry is deleted, the collaborator is called, and when that succeeds a
\* new entry for the key is stored with the time of the store.
C16_FreshnessWindow ==
    /\ [](\A k \in DOMAIN secrets_cache :
            secrets_cache[k].expires_at = secrets_cache[k].stored_at + 300)
    /\ [][\A c \in {1, 2} :
            (call[c].pc = "read" /\ EntryPresent(c) /\ CallSteps(c)) =>
                IF now < StoredAt(c) + 300
                THEN /\ call'[c].pc = "returned"
                     /\ call'[c].ret.credentials
                            = secrets_cache[call[c].secret_id].credentials
                     /\ ~call'[c].fetched
                     /\ secrets_cache' = secrets_cache
                ELSE /\ call'[c].pc = "del"
                     /\ call'[c].ret.kind = "none"]_vars
    /\ [][\A c \in {1, 2} :
            (call[c].pc = "del" /\ EntryPresent(c) /\ CallSteps(c)) =>
                /\ call[c].secret_id \notin DOMAIN secrets_cache'
                /\ call'[c].pc = "fetch"]_vars
    /\ [][\A c \in {1, 2} :
            (call[c].pc = "fetch" /\ CallSteps(c)) =>
                /\ call'[c].fetched
                /\ call'[c].pc \in {"store", "raised"}]_vars
    /\ [][\A c \in {1, 2} :
            (call[c].pc = "store" /\ CallSteps(c)) =>
                /\ call[c].secret_id \in DOMAIN secrets_cache'
                /\ secrets_cache'[call[c].secret_id].stored_at = now
                /\ secrets_cache'[call[c].secret_id].expires_at = now + 300
                /\ call'[c].ret.credentials
                       = secrets_cache'[call[c].secret_id].credentials]_vars

\* A call made exactly 300 s after the entry was stored found it expired,
\* called the collaborator and stored a new entry.
C16_Witness ==
    \E c \in {1, 2} :
        /\ call[c].pc = "returned"
        /\ call[c].expired
        /\ call[c].fetched
        /\ now = 300
        /\ call[c].secret_id \in DOMAIN secrets_cache
        /\ secrets_cache[call[c].secret_id].stored_at = 300

C18_UnknownTagRejected ==
    /\ (parsed.status # "pending"
           /\ (~payload.has_type \/ payload.type \notin ActionTypes))
       => parsed.status = "rejected"
    /\ branch # "unknown"

\* The actions that were started and did not raise.
Succeeded ==
    {j \in 0..(Len(task.actions) - 1) :
        /\ \E m \in 1..Len(executed) : executed[m] = j
        /\ \A n \in 1..Len(failed) : failed[n] # j}

\* The successful Extract / Evaluate actions that wrote the key: an Extract
\* under its name, an Evaluate under its name or, without one, under
\* 'evaluate_result'.
WritersOf(key) ==
    {j \in Succeeded :
        \/ /\ task.actions[j + 1].type = "extract"
           /\ task.actions[j + 1].name = key
        \/ /\ task.actions[j + 1].type = "evaluate"
           /\ task.actions[j + 1].name = (IF key = "evaluate_result" THEN "" ELSE key)
           /\ key # ""}

\* C19: at every point of a run result.data holds exactly the keys written
\* by the successful Extract / Evaluate actions so far, each with the value
\* of the last action that wrote it.
C19_DataMerge ==
    /\ DOMAIN result.data \subseteq {"", "a", "x", "evaluate_result"}
    /\ \A key \in {"", "a", "x", "evaluate_result"} :
         IF WritersOf(key) = {}
         THEN key \notin DOMAIN result.data
         ELSE /\ key \in DOMAIN result.data
              /\ \E j \in WritersOf(key) :
                   /\ \A l \in WritersOf(key) : l <= j
                   /\ result.data[key] = <<"value", j>>
    /\ pc = "after" => savedArgs[1].data = result.data

\* An Extract and an Evaluate wrote the key "a" and an Evaluate without a
\* name followed; all three succeeded and the result was saved.
C19_Witness ==
    /\ pc = "after"
    /\ Len(task.actions) = 3
    /\ result.success
    /\ task.actions[1] = [type |-> "extract", name |-> "a"]
    /\ task.actions[2] = [type |-> "evaluate", name |-> "a"]
    /\ task.actions[3] = [type |-> "evaluate", name |-> ""]
    /\ result.data["a"] = <<"value", 1>>
    /\ result.data["evaluate_result"] = <<"value", 2>>

\* The Wait action gives a delay (not None, not 0 ms).
DelayGiven == wait_action.delay # <<>> /\ wait_action.delay[1] > 0

\* The Wait action gives a locator (not None, not empty).
LocatorGiven == wait_action.xpath # <<>> /\ wait_action.xpath[1] # ""

\* C20: a Wait action makes at most one page call: the fixed delay when a
\* delay is given (whether or not a locator is given too), otherwise the
\* wait for the locator's state (visible when no state is given, with the
\* action's timeout) when a locator is given, otherwise none.
C20_WaitExactlyOne ==
    wait_pc \in {"returned", "raised"} =>
        /\ Len(page_ops) <= 1
        /\ DelayGiven =>
               /\ Len(page_ops) = 1
               /\ page_ops[1].op = "wait_for_timeout"
               /\ page_ops[1].arg = wait_action.delay[1]
        /\ (~DelayGiven /\ LocatorGiven) =>
               /\ Len(page_ops) = 1
               /\ page_ops[1].op = "wait_for_selector"
               /\ page_ops[1].arg = <<"xpath=", wait_action.xpath[1]>>
               /\ page_ops[1].state =
                      (IF wait_action.state = <<>> THEN "visible"
                       ELSE wait_action.state[1])
               /\ page_ops[1].timeout = wait_action.timeout
        /\ (~DelayGiven /\ ~LocatorGiven) => page_ops = <<>>
        /\ (wait_action.delay = <<>> /\ wait_action.xpath = <<>>) => page_ops = <<>>

\* A Wait that gives a delay and a locator returned after the delay alone.
C20_Witness ==
    /\ wait_pc = "returned"
    /\ wait_action.delay = <<500>>
    /\ wait_action.xpath = <<"//div">>
    /\ Len(page_ops) = 1
    /\ page_ops[1].op = "wait_for_timeout"

\* The successful Screenshot actions.
Shots == {j \in Succeeded : task.actions[j + 1].type = "screenshot"}

\* C21: the screenshot list holds one reference per successful Screenshot
\* action, in execution order, under the action's name when it has one; and
\* the task [Wait, Screenshot(name 's1')] whose two actions succeeded ends
\* with success true, no error and exactly one screenshot, named 's1'.
C21_Screenshots ==
    /\ Len(result.screenshots) = Cardinality(Shots)
    /\ \A k \in 1..Len(result.screenshots) :
         LET j == result.screenshots[k].taken_by IN
         /\ j \in Shots
         /\ Cardinality({l \in Shots : l < j}) = k - 1
         /\ task.actions[j + 1].name # ""
                => result.screenshots[k].name = task.actions[j + 1].name
    /\ (/\ pc \in {"finally", "after"}
        /\ Len(task.actions) = 2
        /\ task.actions[1].type = "wait"
        /\ task.actions[2] = [type |-> "screenshot", name |-> "s1"]
        /\ executed = <<0, 1>>
        /\ failed = <<>>)
       => /\ result.success
          /\ result.errors = <<>>
          /\ Len(result.screenshots) = 1
          /\ result.screenshots[1].name = "s1"
    /\ pc = "after" => savedArgs[1].screenshots = result.screenshots

\* The task [Wait, Screenshot(name 's1')] ran without a failure and its
\* result, with the one screenshot, was saved.
C21_Witness ==
    /\ pc = "after"
    /\ Len(task.actions) = 2
    /\ task.actions[1].type = "wait"
    /\ task.actions[2] = [type |-> "screenshot", name |-> "s1"]
    /\ result.success
    /\ Len(result.screenshots) = 1
    /\ result.screenshots[1].name = "s1"

\* C22: a close() that follows a close() on the same manager issues no
\* close / stop call and leaves the handles as they are.
C22_CloseIdempotent ==
    [][(close_log # <<>> /\ close_log' # close_log) =>
          /\ bm' = bm
          /\ close_log'[Len(close_log')] = <<>>]_vars

\* The submission handler has answered the request.
Answered == sub_response # <<>>

\* The task ids of a list of tasks or of response entries, in order.
TaskIdsOf(list) == [k \in 1..Len(list) |-> list[k].task_id]

\* C23: a request with an empty task array or with more than 10 tasks is
\* answered 400 and no send call is issued to the queue; a request of 1 to
\* 10 well-formed tasks is not refused: one send call carries all its tasks.
C23_TaskCount ==
    Answered =>
      /\ (Len(sub_tasks) = 0 \/ Len(sub_tasks) > MaxTasksPerRequest)
            => /\ sub_response[1].statusCode = 400
               /\ sqs_calls = <<>>
      /\ (Len(sub_tasks) \in 1..MaxTasksPerRequest
          /\ InvalidIndices(sub_tasks) = <<>>)
            => /\ sub_response[1].statusCode # 400
               /\ Len(sqs_calls) = 1
               /\ Len(sqs_calls[1]) = Len(sub_tasks)

\* A request of 11 well-formed tasks was answered 400.
C23_Witness ==
    /\ Answered
    /\ Len(sub_tasks) = MaxTasksPerRequest + 1
    /\ InvalidIndices(sub_tasks) = <<>>
    /\ sub_response[1].statusCode = 400
    /\ sqs_calls = <<>>

\* C24: a 202 response names every task of the request once: the task ids
\* of 'queued' and 'failed' together are the task ids of the request, each
\* as often as the request has it, and every task sent with its own id; a
\* single-task request has one queued entry and no failed one.
C24_PerTaskOutcome ==
    (Answered /\ sub_response[1].statusCode = 202) =>
      LET listed == TaskIdsOf(sub_response[1].queued)
                    \o TaskIdsOf(sub_response[1].failed)
          own    == TaskIdsOf(sub_tasks)
      IN  /\ Len(listed) = Len(own)
          /\ \A k \in 1..Len(own) :
               /\ ~LacksTaskId(sub_tasks[k])
               /\ CountOf(listed, own[k]) = CountOf(own, own[k])
               /\ sqs_calls[1][k].TaskId = own[k]
          /\ Len(sub_tasks) = 1
                => /\ Len(sub_response[1].queued) = 1
                   /\ sub_response[1].failed = <<>>

\* A request of three tasks with the ids a, b and a generated one was
\* answered 202 with the second task failed and the others queued.
C24_Witness ==
    /\ Answered
    /\ sub_response[1].statusCode = 202
    /\ Len(sub_tasks) = 3
    /\ TaskIdsOf(sub_tasks) = <<<<"a">>, <<"b">>, GeneratedTaskId(3)>>
    /\ TaskIdsOf(sub_response[1].queued) = <<<<"a">>, GeneratedTaskId(3)>>
    /\ TaskIdsOf(sub_response[1].failed) = <<<<"b">>>>

\* The results of the parse_task calls that returned a task.
ParsedTasks ==
    {parse_results[k].task[1] :
        k \in {j \in 1..Len(parse_results) : parse_results[j].status = "task"}}

\* The ids generate_task_id has handed out.
GeneratedIds == {GenerateTaskId(n) : n \in 1..ids_generated}

\* The body carries a task_id that is not empty.
CarriesTaskId == task_body.task_id \notin {<<>>, <<"">>}

C26_UrlValidation ==
    \A k \in 1..Len(parse_results) :
      task_body.is_json =>
        /\ ( \/ task_body.url = <<>>
             \/ task_body.actions = <<>>
             \/ task_body.url[1].scheme \notin {"http", "https"}
             \/ task_body.url[1].host = "" )
              => parse_results[k].status = "ValidationError"
        /\ ( /\ task_body.url # <<>>
             /\ task_body.actions # <<>>
             /\ task_body.url[1].scheme \in {"http", "https"}
             /\ task_body.url[1].host # ""
             /\ \A j \in 1..Len(task_body.actions[1]) :
                  Candidates(task_body.actions[1][j]) # {} )
              => /\ parse_results[k].status = "task"
                 /\ parse_results[k].task[1].url.host = task_body.url[1].host
                 /\ parse_results[k].task[1].url.query = task_body.url[1].query

\* The body with the url 'example.com' (no scheme) and an empty action list
\* was refused with a ValidationError.
C26_Witness ==
    /\ parse_results # <<>>
    /\ task_body.url = <<UrlString("", "", "example.com", "")>>
    /\ task_body.actions = <<<<>>>>
    /\ parse_results[1].status = "ValidationError"

\* C27: a task with an empty action list whose session was acquired and
\* whose initial navigation returned starts no action and ends with success
\* true and no ErrorInfo; that result is handed to save_result once and the
\* record is not reported failed.
C27_EmptyActions ==
    /\ []((Finalized /\ task.actions = <<>> /\ ~SessionFailed) =>
            /\ executed = <<>>
            /\ result.success
            /\ result.errors = <<>>
            /\ pc = "after" => savedArgs = <<result>>)
    /\ [][(pc = "after" /\ task.actions = <<>> /\ ~SessionFailed) =>
            /\ pc' \in {"batch", "done"}
            /\ log'[Len(log')].saves = 1
            /\ batch_item_failures' = batch_item_failures]_vars

\* A task without actions ran on a page that loaded; its result was handed
\* to save_result.
C27_Witness ==
    /\ pc = "after"
    /\ task.actions = <<>>
    /\ result.success
    /\ result.errors = <<>>
    /\ savedArgs = <<result>>

\* The model was called with exactly these keywords (type aside).
Called(variant, kwargs) ==
    /\ instance # <<>>
    /\ ctor[1].model = variant
    /\ ctor[1].kwargs = kwargs

\* The call built an instance that exposes each keyword with its value.
Exposes(kwargs) ==
    /\ instance[1].status = "built"
    /\ kwargs \subseteq instance[1].given

\* C28: a Login built with username_selector, password_selector and
\* submit_selector, a Click or a Wait built with selector, a Fill built with
\* selector and value and an Extract built with selector and name validate
\* and expose these fields with the given values.
C28_SelectorFields ==
    /\ Called("login", {"username_selector", "password_selector", "submit_selector"})
          => Exposes({"username_selector", "password_selector", "submit_selector"})
    /\ Called("click", {"selector"}) => Exposes({"selector"})
    /\ Called("fill", {"selector", "value"}) => Exposes({"selector", "value"})
    /\ Called("wait", {"selector"}) => Exposes({"selector"})
    /\ Called("extract", {"selector", "name"}) => Exposes({"selector", "name"})

\* C29: save_result is called only in the finally block, after the exit of
\* the `async with` block, and then the manager holds no handle (the
\* session is closed); the failure is raised to process_batch only after
\* save_result was called.
C29_FinalizationOrder ==
    /\ [][Len(savedArgs') > Len(savedArgs) =>
            /\ pc = "finally"
            /\ ~HoldsHandle(bm)]_vars
    /\ [][(pc # "batch" /\ batch_item_failures' # batch_item_failures) =>
            /\ pc = "after"
            /\ Len(savedArgs) = 1]_vars

\* The positions of login_ops at which the call is `op`.
OpsAt(op) == {k \in 1..Len(login_ops) : login_ops[k].op = op}

\* The positions of the fill of the username / of the password field.
FillAt(xpath) ==
    {k \in OpsAt("fill") : login_ops[k].arg[1] = XPathSelector(xpath)}

\* C30: execute_login calls get_credentials first and once; the username is
\* filled before the password, the password before the click on submit; the
\* click is made while a navigation is awaited and the navigation is awaited
\* right after it; the delay comes last, and only when wait_after_submit is
\* given (not None, not 0); nothing is called after a call that raised, so
\* a failed credential lookup is followed by no page call.
C30_LoginOrder ==
    /\ login_ops # <<>> => OpsAt("get_credentials") = {1}
    /\ \A u \in FillAt(login_action.username_xpath) :
         /\ login_ops[u].arg[2] = "credentials.username"
         /\ \A p \in FillAt(login_action.password_xpath) : u < p
    /\ \A p \in FillAt(login_action.password_xpath) :
         /\ login_ops[p].arg[2] = "credentials.password"
         /\ \A c \in OpsAt("click") : p < c
    /\ \A c \in OpsAt("click") :
         /\ FillAt(login_action.username_xpath) # {}
         /\ FillAt(login_action.password_xpath) # {}
         /\ login_ops[c].arg = <<XPathSelector(login_action.submit_xpath)>>
         /\ login_ops[c - 1].op = "expect_navigation"
         /\ c < Len(login_ops) => login_ops[c + 1].op = "navigation"
    /\ \A d \in OpsAt("wait_for_timeout") :
         /\ d = Len(login_ops)
         /\ login_ops[d - 1].op = "navigation"
         /\ login_action.wait_after_submit \notin {None, <<0>>}
         /\ login_ops[d].arg = login_action.wait_after_submit
    /\ login_pc = "returned" =>
         /\ OpsAt("click") # {}
         /\ (OpsAt("wait_for_timeout") # {})
               = (login_action.wait_after_submit \notin {None, <<0>>})
    /\ \A k \in 1..Len(login_ops) :
         login_ops[k].raised => (k = Len(login_ops) /\ login_pc = "raised")

\* A Login with wait_after_submit = 2000 returned after its delay.
C30_Witness ==
    /\ login_pc = "returned"
    /\ login_action.wait_after_submit = <<2000>>
    /\ Len(login_ops) = 9
    /\ login_ops[9].op = "wait_for_timeout"

\* C31: a get_credentials call that resolves no secret id (no key given, no
\* default configured) raises ValueError at once: it never reaches the
\* cache lookup, the collaborator call or the cache write, and starting it
\* leaves the cache as it is.
C31_NoKeyFailsFast ==
    /\ [](\A c \in {1, 2} :
            (call[c].pc # "idle" /\ call[c].secret_id = "") =>
                /\ call[c].pc = "raised"
                /\ call[c].ret = [kind |-> "raise", error |-> "ValueError",
                                  credentials |-> <<>>]
                /\ ~call[c].fetched
                /\ default_secret_arn = "")
    /\ [][\A c \in {1, 2} :
            (call[c].pc = "idle" /\ call'[c].pc # "idle" /\ call'[c].secret_id = "")
                => secrets_cache' = secrets_cache]_vars
    /\ []("" \notin DOMAIN secrets_cache)

\* In a process without a default secret id, a call without a key raised
\* while the cache holds an entry stored by an earlier call.
C31_Witness ==
    /\ default_secret_arn = ""
    /\ call[1].pc = "raised"
    /\ call[1].secret_id = ""
    /\ call[1].ret.error = "ValueError"
    /\ DOMAIN secrets_cache # {}

\* C32: the step in which an action fails appends its ErrorInfo and leaves
\* result.data, result.screenshots and result.success as they were when the
\* action started; no entry of data or screenshots was ever written by an
\* action that failed, a Screenshot whose storage write raised included.
C32_FailureFrame ==
    /\ [][Len(failed') > Len(failed) =>
            /\ result'.data = result.data
            /\ result'.screenshots = result.screenshots
            /\ result'.success = result.success
            /\ Len(result'.errors) = Len(result.errors) + 1
            /\ result'.errors[Len(result'.errors)].action
                  = <<task.actions[i + 1].type, i>>
            /\ \A k \in 1..Len(result.errors) :
                  result'.errors[k] = result.errors[k]]_vars
    /\ [](\A n \in 1..Len(failed) :
            /\ \A k \in 1..Len(result.screenshots) :
                 result.screenshots[k].taken_by # failed[n]
            /\ \A key \in DOMAIN result.data :
                 result.data[key] # <<"value", failed[n]>>)
    /\ [](pc = "after" =>
            /\ savedArgs[1].data = result.data
            /\ savedArgs[1].screenshots = result.screenshots)

\* An Extract and a Screenshot succeeded, then the storage write of a second
\* Screenshot raised: the saved result holds the one value and the one
\* reference.
C32_Witness ==
    /\ pc = "after"
    /\ Len(task.actions) = 3
    /\ task.actions[1].type = "extract"
    /\ task.actions[2].type = "screenshot"
    /\ task.actions[3].type = "screenshot"
    /\ failed = <<2>>
    /\ \E k \in 1..Len(result.errors) :
         result.errors[k].message = <<"screenshot", 2, "save_screenshot">>
    /\ Len(result.screenshots) = 1
    /\ DOMAIN result.data = {"a"}

\* C33: when process_task raises, the message of the raised failure is the
\* message of the "task" ErrorInfo of its result.
C33_RaisedMessage ==
    [][(pc = "after" /\ Len(log') > Len(log) /\ log'[Len(log')].raised) =>
          \E k \in 1..Len(result.errors) :
              /\ result.errors[k].action = <<"task">>
              /\ result.errors[k].message = log'[Len(log')].message]_vars

\* C34: a task the submitter enqueued is accepted by parse_task on every
\* delivery.
C34_SubmitterRefinesParser ==
    submission = "enqueued" =>
        \A k \in 1..Len(parse_results) : parse_results[k].status = "task"

\* The handled records whose payload is not a valid task.
RejectedHandled ==
    {k \in 1..Len(records) : k <= idx /\ records[k].body # "valid"}

\* Every handled record with a rejected payload is named once in the
\* failure list.
RejectedReported ==
    \A k \in RejectedHandled :
        CountOf(batch_item_failures, records[k].messageId) = 1

\* C35: under a transport that redelivers every identifier of the batch
\* report, a record whose payload fails parsing or validation is reported
\* failed at every delivery, is part of every redelivery (it is never
\* acknowledged), and is still being reported when the transport's bound,
\* the only bound there is, ends the redeliveries.
C35_RejectedAlwaysRedelivered ==
    /\ [](RejectedReported)
    /\ [][redeliveries' # redeliveries =>
            \A k \in 1..Len(records) :
                records[k].body # "valid" =>
                    CountOf(records', records[k]) = 1]_vars
    /\ []((\E k \in 1..Len(records) : records[k].body # "valid") =>
            <>(/\ redeliveries = MaxRedeliveries
               /\ pc = "done"
               /\ RejectedHandled # {}
               /\ RejectedReported))

\* Witness for C35: the last redelivery has been handled and a record with a
\* rejected payload is reported failed once more.
C35_Witness ==
    /\ redeliveries = MaxRedeliveries
    /\ pc = "done"
    /\ RejectedHandled # {}
    /\ RejectedReported

\* The positions (from 1) of the tasks of the request that validate_task
\* refuses.
RefusedPositions ==
    {k \in 1..Len(sub_tasks) : ValidateTask(sub_tasks[k]) # ""}

WrittenKeys ==
    {k \in DOMAIN secrets_cache' :
        k \notin DOMAIN secrets_cache \/ secrets_cache'[k] # secrets_cache[k]}

\* C37: the credential cache is written only after a successful fetch that
\* yields valid credentials: a write is the step of a call that has
\* contacted the collaborator and returns the credentials it stores under
\* its key; a fetch that fails (collaborator error, no string value, invalid
\* credentials) leaves the cache unchanged and its key absent, and a call
\* that finds its key absent goes on to contact the collaborator.
C37_CacheWrittenAfterFetchOnly ==
    /\ [][\A k \in WrittenKeys :
            \E c \in Callers :
                /\ call[c].secret_id = k
                /\ call[c].fetched
                /\ call[c].ret = NoRet
                /\ secrets_cache'[k].credentials = CredentialsOf(k)
                /\ call'[c].ret = Returned(CredentialsOf(k))]_vars
    /\ [][\A c \in Callers :
            (call[c].pc = "fetch" /\ call'[c].ret.kind = "raise") =>
                /\ secrets_cache' = secrets_cache
                /\ ~InCache(call[c].secret_id)]_vars
    /\ [][\A c \in Callers :
            (/\ call[c].pc = "check"
             /\ call'[c] # call[c]
             /\ ~InCache(call[c].secret_id)) => call'[c].pc = "fetch"]_vars

\* Witness for C37: a call whose fetch failed has raised with its key absent
\* from the cache, and a second call for the same key is about to contact
\* the collaborator.
C37_Witness ==
    \E c, d \in Callers :
        /\ c # d
        /\ call[c].pc = "raised"
        /\ call[c].fetched
        /\ call[c].ret.error \in FetchOutcomes \ {"ok"}
        /\ call[d].secret_id = call[c].secret_id
        /\ call[d].pc = "fetch"
        /\ ~InCache(call[c].secret_id)

\* C38: within one result the screenshot references have pairwise distinct
\* storage keys, whatever names the actions were given.
C38_DistinctStorageKeys ==
    \A j, k \in 1..Len(result.screenshots) : j # k => S3Key(j) # S3Key(k)

\* What a read of the k-th match gives for the attribute of the action.
ReadOfMatch(k) ==
    CASE extract_action[1].attribute = "inner_text" -> extract_page[k].inner_text
      [] extract_action[1].attribute = "inner_html" -> extract_page[k].inner_html
      [] OTHER -> IF extract_page[k].href = <<>> THEN ""
                  ELSE extract_page[k].href[1]

====
